---- MODULE Spec2Model ----
(***************************************************************************)
(* Model of the crawl engine (scrapers/base.py and the two site crawlers)  *)
(* and of the rate limiters (scrapers/utils/rate_limiter.py).              *)
(*                                                                         *)
(* Optional values (Python None / a value) are sequences of length 0 or 1. *)
(* URLs are the integers 1..NumUrls.                                       *)
(***************************************************************************)
EXTENDS Integers, Sequences, FiniteSets, TLC

\* ------------------------------------------------------------------ bounds
NumUrls == 2
MaxDisc == 2
MaxRuns == 2
MaxLimit == 1
NumCallers == 3
MaxAcquires == 4
MaxOps == 6
BlockLen == 600
MaxLongLen == 10
MaxParas == 4
MaxParaLen == 3
MaxChars == 4
MaxOverlap == 2
MaxCites == 3
MaxTime == 8
MaxReports == 2
MaxCalls == 8
LongIndex == 11

\* ------------------------------------------------------- program constants
SaveEvery == 10
HttpErrorStatus == 400
HttpOk == 200
HttpServerError == 500
MinDelay == 3
MaxConcurrent == 2
RecoveryThreshold == 5
ChunkMaxChars == 2000
DefaultOverlapParas == 2
RequestDelay == 3
ScraperMaxConcurrent == 2
StopAfterAttempt == 3
FailureThreshold == 5
RecoveryTimeout == 60

VARIABLES
    \* ---- crawl engine
    engine,        \* "uninitialized" | "running" | "stopped"
    stateFile,     \* TRUE iff config.state_file is set
    indexLen,      \* how many URLs get_index_urls yields at most in one run
    file,          \* content of the checkpoint file
    state,         \* the in-memory ScraperState (self._state)
    pc,            \* position of the crawl loop of the current run
    loopKind,      \* "run" | "run_for_court" | "run_for_chapters"
    disc,          \* the URLs the discovery sequence has yielded in this run
    limit,         \* the limit argument, <<>> for None
    count,         \* the loop's local count
    cur,           \* the URL being scraped, <<>> when none
    clock,         \* datetime.utcnow(), advanced at every save
    runNo,         \* number of engine instances entered so far
    \* ---- history of the current run
    start,         \* the ScraperState as loaded on entering
    loadRaised,    \* TRUE iff _load_state raised
    runFetches,    \* scrape_item invocations in this run
    yielded,       \* validity of each item yielded in this run
    nHttp,         \* scrapes of this run that met an HTTP error status
    nOther,        \* scrapes of this run that failed in another way
    \* ---- history across runs
    fetchCount,    \* scrape_item invocations per URL
    saveLost,      \* TRUE iff some save at stop did not reach the file
    otherLoop,     \* TRUE iff some run used run_for_court or run_for_chapters
    lastSaved,     \* the ScraperState of the last successful save
    exitSave,      \* outcome of the save in the last __aexit__
    prevComplete   \* TRUE iff the previous run completed and was saved

crawlVars == <<engine, stateFile, indexLen, file, state, pc, loopKind, disc, limit,
               count, cur, clock, runNo, start, loadRaised,
               runFetches, yielded, nHttp, nOther, fetchCount, saveLost,
               otherLoop, lastSaved, exitSave, prevComplete>>

VARIABLES
    \* ---- RateLimiter
    limPc,             \* per caller: "idle" | "wait_sem" | "wait_lock" | "sleeping" | "holding"
    semValue,          \* free slots of _semaphore
    semWaiters,        \* callers waiting for the semaphore, first come first
    lockHolder,        \* the caller inside "async with self._lock", <<>> when free
    lockWaiters,       \* callers waiting for the lock, first come first
    mono,              \* time.monotonic()
    last_request_time, \* _last_request_time
    wakeAt,            \* per caller: when its asyncio.sleep ends
    acquires,          \* acquire() calls made so far
    prevReturn,        \* when the acquire() before the last one returned
    lastReturn         \* when the last acquire() returned

limVars == <<limPc, semValue, semWaiters, lockHolder, lockWaiters, mono,
             last_request_time, wakeAt, acquires, prevReturn, lastReturn>>

VARIABLES
    \* ---- AdaptiveRateLimiter
    adCfg,                 \* the constructor arguments
    current_delay,         \* _current_delay
    consecutive_successes, \* _consecutive_successes
    consecutive_failures,  \* _consecutive_failures
    adLog                  \* the report_* and reset calls made so far

adVars == <<adCfg, current_delay, consecutive_successes, consecutive_failures, adLog>>

VARIABLES
    \* ---- extraction pipeline (pure functions of the item and its text)
    fnIn,   \* the arguments of the call
    fnOp,   \* the function called, "input" before the call
    fnOut   \* what the call returned

pipeVars == <<fnIn, fnOp, fnOut>>

VARIABLES
    \* ---- BaseScraper.fetch_page, called by several tasks
    fetchPc,          \* per caller: "idle" | "wait_sem" | "sleeping" | "loading" | "backoff" | "returned"
    fetchSem,         \* free slots of the scraper's _semaphore
    fetchWaiters,     \* callers waiting for the semaphore, first come first
    loopTime,         \* asyncio.get_event_loop().time()
    scraper_last_request_time, \* the scraper's _last_request_time
    fetchWake,        \* per caller: when its asyncio.sleep ends
    attempt,          \* per caller: attempts of the current fetch_page call
    fetchResult,      \* per caller: "" | "body" | "none" | "raised"
    max_retries,      \* config.max_retries
    loads,            \* page loads begun so far
    prevLoad,         \* when the page load before the last one began
    lastLoad,         \* when the last page load began
    retriedAfter      \* the attempt outcomes that were followed by another attempt

fetchVars == <<fetchPc, fetchSem, fetchWaiters, loopTime, scraper_last_request_time,
               fetchWake, attempt, fetchResult, max_retries, loads, prevLoad, lastLoad,
               retriedAfter>>

VARIABLES
    \* ---- CircuitBreaker, shared by several tasks
    cbState,           \* _state: "closed" | "open" | "half_open"
    failure_count,     \* _failure_count
    last_failure_time, \* _last_failure_time
    wallTime,          \* time.time()
    callPc,            \* per caller: "idle" | "in_flight" (inside func)
    admitted,          \* per caller in flight: the state its call() was permitted in
    calls,             \* call() invocations so far
    lastCall           \* how the last call() went: "" | "permitted" | "rejected"

cbVars == <<cbState, failure_count, last_failure_time, wallTime, callPc, admitted, calls,
            lastCall>>

vars == <<crawlVars, limVars, adVars, pipeVars, fetchVars, cbVars>>

\* ------------------------------------------------------------------ helpers
URLS == 1..NumUrls

Range(s) == {s[i] : i \in DOMAIN s}

\* Python truthiness of an Optional[str]: None and "" are falsy.
Truthy(o) == o # <<>> /\ o[1] # ""

ErrMsgs == {"", "boom"}

\* --------------------------------------------------------------- ScraperState
FreshStats == [total_processed |-> 0, successful |-> 0, failed |-> 0, skipped |-> 0]

FreshState ==
    [processed_urls |-> {},
     failed_urls |-> [x \in {} |-> ""],
     stats |-> FreshStats,
     last_run_at |-> <<>>,
     last_successful_url |-> <<>>]

\* dict assignment d[k] = v; failed_urls is a function from URLs to messages.
DictPut(d, k, v) == [x \in (DOMAIN d) \cup {k} |-> IF x = k THEN v ELSE d[x]]

\* ScrapedItem.is_valid
IsValid(item) == item.raw_html # <<>> /\ item.error = <<>>

\* A membership test that never finds the URL.
IsUrlProcessedNever(st, url) == FALSE

IsUrlProcessed(st, url) == url \in st.processed_urls

\* A failure that is recorded but not counted in total_processed.
MarkUrlProcessedUncounted(st, url, success, error) ==
    [st EXCEPT
        !.processed_urls = @ \cup {url},
        !.stats = [@ EXCEPT
            !.total_processed = IF success THEN @ + 1 ELSE @,
            !.successful = IF success THEN @ + 1 ELSE @,
            !.failed = IF success THEN @ ELSE @ + 1],
        !.last_successful_url = IF success THEN <<url>> ELSE @,
        !.failed_urls = IF ~success /\ Truthy(error) THEN DictPut(@, url, error[1]) ELSE @]

MarkUrlProcessed(st, url, success, error) ==
    [st EXCEPT
        !.processed_urls = @ \cup {url},
        !.stats = [@ EXCEPT
            !.total_processed = @ + 1,
            !.successful = IF success THEN @ + 1 ELSE @,
            !.failed = IF success THEN @ ELSE @ + 1],
        !.last_successful_url = IF success THEN <<url>> ELSE @,
        !.failed_urls = IF ~success /\ Truthy(error) THEN DictPut(@, url, error[1]) ELSE @]

\* A skip that is counted as a processed URL.
MarkUrlSkippedCounted(st, url) ==
    [st EXCEPT !.stats = [@ EXCEPT !.skipped = @ + 1, !.total_processed = @ + 1]]

MarkUrlSkipped(st, url) == [st EXCEPT !.stats = [@ EXCEPT !.skipped = @ + 1]]

\* ------------------------------------------------------------ checkpoint file
\* list(set): some enumeration of the set without repetition.
RECURSIVE SetToList(_)
SetToList(S) ==
    IF S = {} THEN <<>>
    ELSE LET x == CHOOSE y \in S : TRUE IN <<x>> \o SetToList(S \ {x})

\* json.dumps(..., default=str) writes a datetime as its string form.
DumpTime(t) == IF t = <<>> THEN <<>> ELSE <<"datetime", t[1]>>

\* pydantic parses the string form back into a datetime.
ParseTime(j) == IF j = <<>> THEN <<>> ELSE <<j[2]>>

\* model_dump() with the set turned into a list, as written by json.dumps.
DumpState(st) ==
    [processed_urls |-> SetToList(st.processed_urls),
     failed_urls |-> st.failed_urls,
     stats |-> st.stats,
     last_run_at |-> DumpTime(st.last_run_at),
     last_successful_url |-> st.last_successful_url]

\* ScraperState(**data) with processed_urls turned back into a set.
ParseState(data) ==
    [processed_urls |-> Range(data.processed_urls),
     failed_urls |-> data.failed_urls,
     stats |-> data.stats,
     last_run_at |-> ParseTime(data.last_run_at),
     last_successful_url |-> data.last_successful_url]

NoData == DumpState(FreshState)

\* The file is missing, holds text that is not JSON ("corrupt"), holds JSON
\* that does not validate as a ScraperState ("invalid"), or holds a dump.
FileOf(kind, data) == [kind |-> kind, data |-> data]

BadFiles == {FileOf(k, NoData) : k \in {"missing", "invalid"}}

\* _load_state without its try block: a bad file raises.
LoadStateNoCatch(sf, f) ==
    IF ~sf \/ f.kind = "missing" THEN [raised |-> FALSE, state |-> FreshState]
    ELSE IF f.kind = "valid" THEN [raised |-> FALSE, state |-> ParseState(f.data)]
    ELSE [raised |-> TRUE, state |-> FreshState]

\* _load_state: the resulting state, and whether an exception left the method.
LoadState(sf, f) ==
    IF ~sf THEN [raised |-> FALSE, state |-> FreshState]
    ELSE IF f.kind = "missing" THEN [raised |-> FALSE, state |-> FreshState]
    ELSE IF f.kind = "valid" THEN [raised |-> FALSE, state |-> ParseState(f.data)]
    ELSE [raised |-> FALSE, state |-> FreshState]

\* Outcomes of the write in _save_state: it succeeds, open() fails and leaves
\* the file as it was, or write() fails after open(.., "w") truncated the file.
SaveOutcomes == {"ok", "open_error", "write_error"}

\* Outcomes of _save_state: those of the write, and a failure of
\* "state_path.parent.mkdir(parents=True, exist_ok=True)" before it.
SaveStateOutcomes == SaveOutcomes \cup {"mkdir_error"}

\* _save_state raises: mkdir is called before the try block.
SaveRaises(sf, outcome) == sf /\ outcome = "mkdir_error"

\* _save_state at time t: the new in-memory state and the new file.
SaveState(sf, st, f, t, outcome) ==
    IF ~sf THEN [state |-> st, file |-> f]
    ELSE LET st1 == [st EXCEPT !.last_run_at = <<t>>]
         IN [state |-> st1,
             file |-> CASE outcome = "ok" -> FileOf("valid", DumpState(st1))
                        [] outcome \in {"open_error", "mkdir_error"} -> f
                        [] OTHER -> FileOf("corrupt", NoData)]

\* ------------------------------------------------------------------ scraping
\* What the site answers to one detail-page fetch.
HttpResponse(status, page, msg) == [kind |-> "http", status |-> status, page |-> page, msg |-> msg]

Responses ==
    {HttpResponse(HttpOk, "good", ""), HttpResponse(HttpOk, "no_identifier", ""),
     HttpResponse(HttpServerError, "good", ""), HttpResponse(HttpOk, "unparseable", "boom")}
    \cup {[kind |-> "transport", status |-> 0, page |-> "", msg |-> m] : m \in ErrMsgs}
    \cup {[kind |-> "none", status |-> 0, page |-> "", msg |-> ""]}

Item(raw_html, error) == [raw_html |-> raw_html, error |-> error]

NoItem == Item(<<>>, <<>>)

\* fetch_page: the body, None on an HTTP error status, or an exception.
FetchPage(resp) ==
    IF resp.kind = "transport" THEN [ret |-> "raise", html |-> <<>>, msg |-> resp.msg]
    ELSE IF resp.status >= HttpErrorStatus THEN [ret |-> "value", html |-> <<>>, msg |-> ""]
    ELSE [ret |-> "value", html |-> <<resp.page>>, msg |-> ""]

\* scrape_item of the site crawlers; "none" is the None the base class allows.
ScrapeItem(resp) ==
    IF resp.kind = "none" THEN [ret |-> "none", item |-> NoItem, msg |-> ""]
    ELSE LET f == FetchPage(resp) IN
        IF f.ret = "raise" THEN [ret |-> "raise", item |-> NoItem, msg |-> f.msg]
        ELSE IF f.html = <<>>
            THEN [ret |-> "item", item |-> Item(<<>>, <<"Failed to fetch page">>), msg |-> ""]
        ELSE IF resp.page = "unparseable"
            THEN [ret |-> "item", item |-> Item(f.html, <<resp.msg>>), msg |-> ""]
        ELSE IF resp.page = "no_identifier"
            THEN [ret |-> "item", item |-> Item(f.html, <<"Could not extract case identifier">>), msg |-> ""]
        ELSE [ret |-> "item", item |-> Item(f.html, <<>>), msg |-> ""]

\* "if limit and count >= limit"
LimitReached(lim, cnt) == lim # <<>> /\ lim[1] # 0 /\ cnt >= lim[1]

\* "if count % 10 == 0"
\* A periodic save with another period.
SaveDueLate(cnt) == cnt % (SaveEvery + 1) = 0

SaveDue(cnt) == cnt % SaveEvery = 0

\* -------------------------------------------------------------- crawl engine
\* A scraper as constructed, for a site whose index has len URLs among urls.
CrawlStart(len, urls) ==
    /\ engine = "uninitialized"
    /\ stateFile \in BOOLEAN
    /\ indexLen = len
    /\ file \in BadFiles
    /\ stateFile \/ file.kind = "missing"
    /\ state = FreshState
    /\ pc = "init"
    /\ loopKind = "run"
    /\ disc = <<>>
    /\ limit = <<>>
    /\ count = 0
    /\ cur = <<>>
    /\ clock = 0
    /\ runNo = 0
    /\ start = FreshState
    /\ loadRaised = FALSE
    /\ runFetches = 0
    /\ yielded = <<>>
    /\ nHttp = 0
    /\ nOther = 0
    /\ fetchCount = [u \in urls |-> 0]
    /\ saveLost = FALSE
    /\ otherLoop = FALSE
    /\ lastSaved = FreshState
    /\ exitSave = "none"
    /\ prevComplete = FALSE

CrawlInit == CrawlStart(MaxDisc, URLS)

\* Delays and factors are floats; the model keeps them as fractions n/d in
\* lowest terms, so products and comparisons are exact.
RECURSIVE Gcd(_, _)
Gcd(a, b) == IF b = 0 THEN a ELSE Gcd(b, a % b)

Frac(n, d) == LET g == Gcd(n, d) IN [n |-> n \div g, d |-> d \div g]

FMul(a, b) == Frac(a.n * b.n, a.d * b.d)

FLeq(a, b) == a.n * b.d <= b.n * a.d

FLess(a, b) == a.n * b.d < b.n * a.d

FMin(a, b) == IF FLeq(a, b) THEN a ELSE b

FMax(a, b) == IF FLeq(b, a) THEN a ELSE b

AdaptiveConfig(base, min, max, backoff, recovery) ==
    [base_delay |-> base, min_delay |-> min, max_delay |-> max,
     backoff_factor |-> backoff, recovery_factor |-> recovery]

\* The dataclass defaults, and the arguments the tests construct it with.
DefaultConfig == AdaptiveConfig(Frac(3, 1), Frac(1, 1), Frac(60, 1), Frac(2, 1), Frac(9, 10))

MaxDelayTestConfig == AdaptiveConfig(Frac(1, 1), Frac(1, 1), Frac(10, 1), Frac(2, 1), Frac(9, 10))

MinDelayTestConfig == AdaptiveConfig(Frac(1, 1), Frac(1, 2), Frac(60, 1), Frac(2, 1), Frac(1, 2))

AdaptiveConfigs == {DefaultConfig, MaxDelayTestConfig, MinDelayTestConfig}

\* __post_init__ of the adaptive limiter with some configuration.
AdaptiveFresh(cfg) ==
    /\ adCfg = cfg
    /\ current_delay = cfg.base_delay
    /\ consecutive_successes = 0
    /\ consecutive_failures = 0
    /\ adLog = <<>>

\* The rate limiter before any caller has used it.
LimiterIdle ==
    /\ limPc = [c \in 1..NumCallers |-> "idle"]
    /\ semValue = MaxConcurrent
    /\ semWaiters = <<>>
    /\ lockHolder = <<>>
    /\ lockWaiters = <<>>
    /\ last_request_time = 0
    /\ wakeAt = [c \in 1..NumCallers |-> 0]
    /\ acquires = 0
    /\ prevReturn = <<>>
    /\ lastReturn = <<>>

\* No pipeline function has been called.
PipelineIdle ==
    /\ fnIn = <<>>
    /\ fnOp = "input"
    /\ fnOut = <<>>

\* A scraper whose fetch_page nobody has called, with the default max_retries.
FetchIdle ==
    /\ fetchPc = [c \in 1..NumCallers |-> "idle"]
    /\ fetchSem = ScraperMaxConcurrent
    /\ fetchWaiters = <<>>
    /\ loopTime = 0
    /\ scraper_last_request_time = 0
    /\ fetchWake = [c \in 1..NumCallers |-> 0]
    /\ attempt = [c \in 1..NumCallers |-> 0]
    /\ fetchResult = [c \in 1..NumCallers |-> ""]
    /\ max_retries = StopAfterAttempt
    /\ loads = 0
    /\ prevLoad = <<>>
    /\ lastLoad = <<>>
    /\ retriedAfter = {}

\* A circuit breaker as constructed: closed, nothing recorded.
CircuitIdle ==
    /\ cbState = "closed"
    /\ failure_count = 0
    /\ last_failure_time = 0
    /\ wallTime = 0
    /\ callPc = [c \in 1..NumCallers |-> "idle"]
    /\ admitted = [c \in 1..NumCallers |-> ""]
    /\ calls = 0
    /\ lastCall = ""

\* A new engine instance: __init__ and __aenter__, which ends in _load_state.
AEnter ==
    /\ UNCHANGED <<limVars, adVars, pipeVars, fetchVars, cbVars>>
    /\ engine = "uninitialized" \/ (engine = "stopped" /\ runNo < MaxRuns)
    /\ LET r == LoadState(stateFile, file) IN
        /\ engine' = IF r.raised THEN "failed" ELSE "running"
        /\ state' = r.state
        /\ start' = r.state
        /\ loadRaised' = r.raised
    /\ prevComplete' = (engine = "stopped" /\ pc = "done" /\ exitSave = "ok")
    /\ runNo' = runNo + 1
    /\ pc' = "init"
    /\ disc' = <<>>
    /\ limit' = <<>>
    /\ count' = 0
    /\ cur' = <<>>
    /\ runFetches' = 0
    /\ yielded' = <<>>
    /\ nHttp' = 0
    /\ nOther' = 0
    /\ loopKind' = "run"
    /\ exitSave' = "none"
    /\ UNCHANGED <<stateFile, indexLen, file, clock, fetchCount, saveLost, otherLoop, lastSaved>>

\* The caller starts one of the crawl loops: run(limit), run_for_court(..,
\* limit) or run_for_chapters(chapters, limit).
StartLoop(kind, lim) ==
    /\ UNCHANGED <<limVars, adVars, pipeVars, fetchVars, cbVars>>
    /\ engine = "running"
    /\ pc = "init"
    /\ pc' = "next"
    /\ loopKind' = kind
    /\ limit' = lim
    /\ otherLoop' = (otherLoop \/ kind # "run")
    /\ UNCHANGED <<disc, engine, stateFile, indexLen, file, state, count, cur, clock, runNo, start,
                   loadRaised, runFetches, yielded, nHttp, nOther, fetchCount,
                   saveLost, lastSaved, exitSave, prevComplete>>

\* What the checkpoint holds after a save: the state just written, the state
\* of the earlier save when the file was left alone, nothing when it was lost.
Saved(old, sv, outcome) ==
    IF ~stateFile \/ outcome \in {"open_error", "mkdir_error"} THEN old
    ELSE IF outcome = "ok" THEN sv.state
    ELSE FreshState

\* The periodic save of run(): _save_state when count % 10 == 0.
PeriodicSave(kind, st, cnt, outcome) ==
    IF kind = "run" /\ SaveDue(cnt)
    THEN SaveState(stateFile, st, file, clock + 1, outcome)
    ELSE [state |-> st, file |-> file]

Saves(kind, cnt) == kind = "run" /\ SaveDue(cnt)

\* The head of one loop iteration: the discovery sequence is exhausted (nxt
\* is <<>>) or yields its next URL; then the limit test, the processed test,
\* and the call of scrape_item.
NextUrl(nxt) ==
    /\ UNCHANGED <<limVars, adVars, pipeVars, fetchVars, cbVars>>
    /\ engine = "running"
    /\ pc = "next"
    /\ nxt = <<>> \/ Len(disc) < indexLen
    /\ IF nxt = <<>>
       THEN /\ pc' = "done"
            /\ UNCHANGED <<disc, state, cur, runFetches, fetchCount>>
       ELSE LET url == nxt[1] IN
            /\ disc' = Append(disc, url)
            /\ IF LimitReached(limit, count)
               THEN /\ pc' = "done"
                    /\ UNCHANGED <<state, cur, runFetches, fetchCount>>
               ELSE IF IsUrlProcessed(state, url)
               THEN /\ state' = MarkUrlSkipped(state, url)
                    /\ pc' = "next"
                    /\ UNCHANGED <<cur, runFetches, fetchCount>>
               ELSE /\ pc' = "scraping"
                    /\ cur' = <<url>>
                    /\ runFetches' = runFetches + 1
                    /\ fetchCount' = [fetchCount EXCEPT ![url] = @ + 1]
                    /\ UNCHANGED state
    /\ UNCHANGED <<engine, stateFile, indexLen, file, loopKind, limit, count, clock, runNo, start,
                   loadRaised, yielded, nHttp, nOther, saveLost, otherLoop, lastSaved,
                   exitSave, prevComplete>>

Body(st, cnt, yields, escaped) == [state |-> st, count |-> cnt, yields |-> yields, escaped |-> escaped]

\* The try block of run(): every outcome of scrape_item is marked, and only a
\* valid item is counted and yielded.
RunBody(st, url, cnt, r) ==
    IF r.ret = "item" THEN
        IF IsValid(r.item)
        THEN Body(MarkUrlProcessed(st, url, TRUE, <<>>), cnt + 1, TRUE, FALSE)
        ELSE Body(MarkUrlProcessed(st, url, FALSE, r.item.error), cnt, FALSE, FALSE)
    ELSE IF r.ret = "none"
        THEN Body(MarkUrlProcessed(st, url, FALSE, <<"No item returned">>), cnt, FALSE, FALSE)
    ELSE Body(MarkUrlProcessed(st, url, FALSE, <<r.msg>>), cnt, FALSE, FALSE)

\* The loop body of run_for_court and of run_for_chapters: no try block.
CourtBody(st, url, cnt, r) ==
    IF r.ret = "raise" THEN Body(st, cnt, FALSE, TRUE)
    ELSE IF r.ret = "none" THEN Body(st, cnt, FALSE, FALSE)
    ELSE IF IsValid(r.item)
        THEN Body(MarkUrlProcessed(st, url, TRUE, r.item.error), cnt + 1, TRUE, FALSE)
    ELSE Body(MarkUrlProcessed(st, url, FALSE, r.item.error), cnt, FALSE, FALSE)

LoopBody(kind, st, url, cnt, r) ==
    IF kind = "run" THEN RunBody(st, url, cnt, r) ELSE CourtBody(st, url, cnt, r)

\* scrape_item returns or raises, and the loop body runs up to its yield, to
\* the end of the iteration (with the periodic save of run()), or until the
\* exception leaves the loop.
FinishScrape(resp, outcome) ==
    /\ UNCHANGED <<limVars, adVars, pipeVars, fetchVars, cbVars>>
    /\ engine = "running"
    /\ pc = "scraping"
    /\ LET r == ScrapeItem(resp)
           b == LoopBody(loopKind, state, cur[1], count, r)
           saves == ~b.escaped /\ ~b.yields /\ Saves(loopKind, b.count)
           sv == PeriodicSave(loopKind, b.state, b.count, outcome)
       IN
        /\ saves \/ outcome = "ok"
        /\ count' = b.count
        /\ yielded' = IF b.yields THEN Append(yielded, IsValid(r.item)) ELSE yielded
        /\ pc' = IF b.escaped THEN "aborted" ELSE IF b.yields THEN "yielded"
                 ELSE IF saves /\ SaveRaises(stateFile, outcome) THEN "save_failed" ELSE "next"
        /\ state' = IF saves THEN sv.state ELSE b.state
        /\ file' = IF saves THEN sv.file ELSE file
        /\ clock' = IF saves THEN clock + 1 ELSE clock
        /\ lastSaved' = IF saves THEN Saved(lastSaved, sv, outcome) ELSE lastSaved
    /\ nHttp' = IF resp.kind = "http" /\ resp.status >= HttpErrorStatus THEN nHttp + 1 ELSE nHttp
    /\ nOther' = IF resp.kind # "http" \/ (resp.status < HttpErrorStatus /\ resp.page # "good")
                 THEN nOther + 1 ELSE nOther
    /\ cur' = <<>>
    /\ UNCHANGED <<engine, stateFile, indexLen, loopKind, disc, limit, runNo, start, loadRaised, runFetches, fetchCount, saveLost, otherLoop, exitSave, prevComplete>>

\* The caller asks for the next item: the generator resumes after its yield,
\* run() does its periodic save, and the iteration ends.
Resume(outcome) ==
    /\ UNCHANGED <<limVars, adVars, pipeVars, fetchVars, cbVars>>
    /\ engine = "running"
    /\ pc = "yielded"
    /\ LET saves == Saves(loopKind, count)
           sv == PeriodicSave(loopKind, state, count, outcome)
       IN
        /\ saves \/ outcome = "ok"
        /\ state' = sv.state
        /\ file' = sv.file
        /\ clock' = IF saves THEN clock + 1 ELSE clock
        /\ lastSaved' = IF saves THEN Saved(lastSaved, sv, outcome) ELSE lastSaved
        /\ pc' = IF saves /\ SaveRaises(stateFile, outcome) THEN "save_failed" ELSE "next"
    /\ UNCHANGED <<engine, stateFile, indexLen, loopKind, disc, limit, count, cur, runNo, start,
                   loadRaised, runFetches, yielded, nHttp, nOther, fetchCount,
                   saveLost, otherLoop, exitSave, prevComplete>>

\* An __aexit__ that closes the browser and never writes the checkpoint.
AExitNoSave(outcome) ==
    /\ UNCHANGED <<limVars, adVars, pipeVars, fetchVars, cbVars>>
    /\ engine = "running"
    /\ stateFile \/ outcome = "ok"
    /\ state' = [state EXCEPT !.last_run_at = IF stateFile THEN <<clock + 1>> ELSE @]
    /\ clock' = IF stateFile THEN clock + 1 ELSE clock
    /\ exitSave' = IF stateFile THEN outcome ELSE "none"
    /\ saveLost' = (saveLost \/ (stateFile /\ outcome # "ok"))
    /\ engine' = "stopped"
    /\ UNCHANGED <<stateFile, indexLen, file, lastSaved, pc, loopKind, disc, limit, count, cur, runNo,
                   start, loadRaised, runFetches, yielded, nHttp, nOther, fetchCount,
                   otherLoop, prevComplete>>

\* __aexit__: _save_state, then the browser is closed and the engine stopped;
\* when _save_state raises, the context, the browser and playwright stay open
\* ("leaked").  It takes the exception that ended the block and does not look
\* at it.
AExit(outcome) ==
    /\ UNCHANGED <<limVars, adVars, pipeVars, fetchVars, cbVars>>
    /\ engine = "running"
    /\ stateFile \/ outcome = "ok"
    /\ LET sv == SaveState(stateFile, state, file, clock + 1, outcome) IN
        /\ state' = sv.state
        /\ file' = sv.file
        /\ lastSaved' = Saved(lastSaved, sv, outcome)
    /\ clock' = IF stateFile THEN clock + 1 ELSE clock
    /\ exitSave' = IF stateFile THEN outcome ELSE "none"
    /\ saveLost' = (saveLost \/ (stateFile /\ outcome # "ok"))
    /\ engine' = IF SaveRaises(stateFile, outcome) THEN "leaked" ELSE "stopped"
    /\ UNCHANGED <<stateFile, indexLen, pc, loopKind, disc, limit, count, cur, runNo, start,
                   loadRaised, runFetches, yielded, nHttp, nOther, fetchCount,
                   otherLoop, prevComplete>>

\* The loop is exhausted or has reached its limit and the caller's block ends.
ExitNormal(outcome) == pc = "done" /\ AExit(outcome)

\* The caller's loop body raises while the generator is suspended at a yield.
ExitCallerError(outcome) == pc = "yielded" /\ AExit(outcome)

\* An exception of scrape_item has left the crawl loop and the caller's block.
ExitItemError(outcome) == pc = "aborted" /\ AExit(outcome)

\* An external signal: asyncio cancels the task at the await it is suspended
\* at (CancelledError is not an Exception), and the block is left.
ExitCancelled(outcome) == pc \in {"init", "next", "scraping", "yielded"} /\ AExit(outcome)

\* An exception of _save_state has left the crawl loop and the caller's block.
ExitSaveError(outcome) == pc = "save_failed" /\ AExit(outcome)

Limits == {<<>>} \cup {<<n>> : n \in 0..MaxLimit}

LoopKinds == {"run", "run_for_court", "run_for_chapters"}

CrawlNext ==
    \/ AEnter
    \/ \E kind \in LoopKinds, lim \in Limits : StartLoop(kind, lim)
    \/ \E nxt \in {<<>>} \cup {<<u>> : u \in URLS} : NextUrl(nxt)
    \/ \E resp \in Responses, o \in SaveOutcomes : FinishScrape(resp, o)
    \/ \E o \in SaveOutcomes : Resume(o)
    \/ \E o \in SaveOutcomes : ExitNormal(o)
    \/ \E o \in SaveOutcomes : ExitCallerError(o)
    \/ \E o \in SaveOutcomes : ExitItemError(o)
    \/ \E o \in SaveOutcomes : ExitCancelled(o)

Init ==
    /\ CrawlInit
    /\ LimiterIdle
    /\ mono = 0
    /\ AdaptiveFresh(DefaultConfig)
    /\ PipelineIdle
    /\ FetchIdle
    /\ CircuitIdle

Spec == Init /\ [][CrawlNext]_vars

\* ------------------------------------------------------- claims: crawl engine
NoDuplicates(q) == \A i, j \in DOMAIN q : i # j => q[i] # q[j]

\* The runs so far all used run() and shared one checkpoint that every stop saved.
SharedCheckpoint == stateFile /\ ~saveLost /\ ~otherLoop

\* C1: over any sequence of runs of run() that share one checkpoint, each
\* loading it at start and saving it at stop, scrape_item is invoked at most
\* once for every URL.
C1_FetchedAtMostOnce == SharedCheckpoint => \A u \in URLS : fetchCount[u] <= 1

\* This run resumes a run that went to completion and saved its checkpoint, and
\* discovery has yielded no URL that was not processed before.
ResumedWithNoNewUrl ==
    /\ engine \in {"running", "stopped"}
    /\ prevComplete
    /\ pc # "init"
    /\ Range(disc) \subseteq start.processed_urls

\* C2 as stated: a resumed run with no new URL scrapes nothing and leaves all
\* four stats counters as they were.
C2_StatsUnchanged == ResumedWithNoNewUrl => (runFetches = 0 /\ state.stats = start.stats)

\* C2 as amended: a resumed run with no new URL scrapes nothing, yields
\* nothing, and leaves processed_urls, failed_urls and the counters
\* total_processed, successful and failed as they were; skipped grows by one
\* for every URL the discovery sequence yields.
C2_ResumeSkipsOnly ==
    ResumedWithNoNewUrl =>
        /\ runFetches = 0
        /\ yielded = <<>>
        /\ state.processed_urls = start.processed_urls
        /\ state.failed_urls = start.failed_urls
        /\ state.stats.total_processed = start.stats.total_processed
        /\ state.stats.successful = start.stats.successful
        /\ state.stats.failed = start.stats.failed
        /\ state.stats.skipped = start.stats.skipped + Len(disc)

C2_Witness ==
    /\ ResumedWithNoNewUrl
    /\ engine = "stopped"
    /\ pc = "done"
    /\ Len(disc) = MaxDisc
    /\ state.last_run_at # start.last_run_at

\* A run of run() with no limit has exhausted a discovery sequence of distinct,
\* previously unprocessed URLs, each of which succeeded or met an HTTP error.
FullRun ==
    /\ loopKind = "run"
    /\ pc = "done"
    /\ limit = <<>>
    /\ NoDuplicates(disc)
    /\ Range(disc) \cap start.processed_urls = {}
    /\ nOther = 0

\* C3: a full run over n distinct unprocessed URLs of which k meet an HTTP
\* error status yields n-k valid items and adds k to failed, n-k to successful,
\* n to total_processed and n URLs to processed_urls.
C3_Accounting ==
    FullRun =>
        /\ Len(yielded) = Len(disc) - nHttp
        /\ \A i \in DOMAIN yielded : yielded[i]
        /\ state.stats.failed = start.stats.failed + nHttp
        /\ state.stats.successful = start.stats.successful + Len(disc) - nHttp
        /\ state.stats.total_processed = start.stats.total_processed + Len(disc)
        /\ Cardinality(state.processed_urls) = Cardinality(start.processed_urls) + Len(disc)

C3_Witness ==
    /\ FullRun
    /\ start = FreshState
    /\ Len(disc) = MaxDisc
    /\ nHttp = 1
    /\ state.stats.failed = 1
    /\ Cardinality(state.processed_urls) = MaxDisc

\* C4: run(limit) yields only valid items and never more than limit of them.
C4_LimitRespected ==
    (loopKind = "run" /\ limit # <<>>) =>
        (Len(yielded) <= limit[1] /\ \A i \in DOMAIN yielded : yielded[i])

\* C5: no exception of a single item ends a crawl loop.
C5_ErrorsLocal == pc # "aborted"

\* C6: _load_state never raises; a missing, corrupt or invalid checkpoint gives
\* a fresh state and a valid one gives back the processed_urls, failed_urls
\* and stats that were saved.
C6_LoadTolerant ==
    [][runNo' = runNo + 1 =>
        /\ ~loadRaised'
        /\ engine' = "running"
        /\ (stateFile /\ file.kind = "valid") =>
            /\ state'.processed_urls = lastSaved.processed_urls
            /\ state'.failed_urls = lastSaved.failed_urls
            /\ state'.stats = lastSaved.stats
        /\ ~(stateFile /\ file.kind = "valid") => state' = FreshState]_vars

C6_Witness ==
    /\ engine = "running"
    /\ pc = "init"
    /\ runNo > 1
    /\ file.kind = "valid"
    /\ start.processed_urls # {}
    /\ DOMAIN start.failed_urls # {}
    /\ start.stats.failed > 0

\* C7 as stated: once the engine has stopped, every URL marked processed in
\* memory is in the checkpoint file.
C7_CheckpointComplete ==
    (engine = "stopped" /\ stateFile) =>
        state.processed_urls \subseteq (IF file.kind = "valid" THEN Range(file.data.processed_urls) ELSE {})

\* C7 as amended: every way of leaving the running state calls _save_state
\* before the engine stops; when the write succeeds the checkpoint then holds
\* the in-memory state, so every URL marked processed is in it.
C7_FlushedOnStop ==
    (engine = "stopped" /\ stateFile) =>
        /\ exitSave # "none"
        /\ state.last_run_at = <<clock>>
        /\ exitSave = "ok" =>
            /\ file.kind = "valid"
            /\ ParseState(file.data) = state
            /\ state.processed_urls \subseteq Range(file.data.processed_urls)

C7_Witness ==
    /\ engine = "stopped"
    /\ stateFile
    /\ exitSave = "ok"
    /\ pc = "scraping"
    /\ state.processed_urls # {}

\* C21: the checkpoint file always holds a complete dump of a saved state (or
\* is as it was before the first save), whatever happens during a save, so no
\* load finds a partial file and starts from an empty state.
C21_AtomicCheckpoint == stateFile => (file \in BadFiles \/ file.kind = "valid")

\* C28: at every point of every run, from a fresh state and across save and
\* load of the checkpoint, total_processed = successful + failed =
\* |processed_urls| and every key of failed_urls is in processed_urls; and a
\* skip changes nothing of the state but stats.skipped.
C28_CountersConsistent ==
    /\ [](/\ state.stats.total_processed = state.stats.successful + state.stats.failed
          /\ state.stats.total_processed = Cardinality(state.processed_urls)
          /\ DOMAIN state.failed_urls \subseteq state.processed_urls)
    /\ [][state'.stats.skipped # state.stats.skipped =>
            (\/ state' = [state EXCEPT !.stats = [@ EXCEPT !.skipped = @ + 1]]
             \/ runNo' # runNo)]_vars

C28_Witness ==
    /\ engine = "running"
    /\ runNo = MaxRuns
    /\ start.stats.successful = 1
    /\ start.stats.failed = 1
    /\ state.stats.skipped = MaxDisc
    /\ DOMAIN state.failed_urls # {}
    /\ file.kind = "valid"

\* ------------------------------------------------ run() over a longer index
\* run() with a state file on a site whose index lists LongIndex URLs, so that
\* count passes SaveEvery; a detail page is good or answers an HTTP error, and
\* _save_state has every outcome, the failure of mkdir included.
CheckpointResponses ==
    {HttpResponse(HttpOk, "good", ""), HttpResponse(HttpServerError, "good", "")}

\* The first and the last page of the index may answer an HTTP error, the
\* pages between them are served.
SiteAnswers(url) ==
    IF url \in {1, LongIndex} THEN CheckpointResponses
    ELSE {HttpResponse(HttpOk, "good", "")}

CheckpointInit ==
    /\ CrawlStart(LongIndex, 1..LongIndex)
    /\ stateFile
    /\ LimiterIdle
    /\ mono = 0
    /\ AdaptiveFresh(DefaultConfig)
    /\ PipelineIdle
    /\ FetchIdle
    /\ CircuitIdle

CheckpointNext ==
    \/ AEnter
    \/ StartLoop("run", <<>>)
    \/ \E nxt \in {<<>>, <<Len(disc) + 1>>} : NextUrl(nxt)
    \/ \E resp \in CheckpointResponses, o \in SaveStateOutcomes :
            cur # <<>> /\ resp \in SiteAnswers(cur[1]) /\ FinishScrape(resp, o)
    \/ \E o \in SaveStateOutcomes : Resume(o)
    \/ \E o \in SaveStateOutcomes : ExitNormal(o)
    \/ \E o \in SaveStateOutcomes : ExitSaveError(o)

CheckpointSpec == CheckpointInit /\ [][CheckpointNext]_vars

\* Successful (yielded) items of the in-memory state that the checkpoint lacks.
Unsaved == state.stats.successful - lastSaved.stats.successful

\* The most recent _save_state wrote the file (or none was called since load).
LastSaveOk == lastSaved.last_run_at = state.last_run_at

\* C22 as stated: in run(), at any moment fewer than 10 yielded items are
\* missing from the checkpoint.
C22_FewerThanTenMissing ==
    (engine = "running" /\ loopKind = "run") => Unsaved < SaveEvery

\* C22 amended: when run() is resumed after a yield that brought count to a
\* multiple of 10, _save_state is called in that step, before the next URL is
\* taken; and while the last _save_state has written the file, at most 10
\* yielded items are missing from the checkpoint, fewer than 10 whenever the
\* generator is not suspended at its yield.
C22_PeriodicCheckpoint ==
    /\ [][(/\ engine = "running" /\ engine' = "running"
            /\ loopKind = "run"
            /\ pc = "yielded" /\ pc' # "yielded"
            /\ count % SaveEvery = 0)
           => (/\ clock' = clock + 1
               /\ state' = [state EXCEPT !.last_run_at = <<clock'>>]
               /\ disc' = disc)]_vars
    /\ []((engine = "running" /\ loopKind = "run" /\ LastSaveOk) =>
            /\ Unsaved <= SaveEvery
            /\ (pc # "yielded" => Unsaved < SaveEvery))

\* The tenth item was yielded, the periodic save wrote it, and the eleventh
\* URL is being scraped.
C22_Witness ==
    /\ engine = "running"
    /\ loopKind = "run"
    /\ pc = "scraping"
    /\ count = SaveEvery
    /\ LastSaveOk
    /\ lastSaved.stats.successful = SaveEvery
    /\ file = FileOf("valid", DumpState(state))

CALLERS == 1..NumCallers

\* The engine without a run: the state the limiter specifications keep fixed.
CrawlIdle == CrawlInit /\ ~stateFile

\* "wait_time = self.min_delay - elapsed" with elapsed = now - _last_request_time
WaitTime(t, last) == MinDelay - (t - last)

\* A semaphore that lets one caller too many through.
SemLockedLate == semValue < 0

\* asyncio.Semaphore.locked(): no free slot, or a waiter is queued.
SemLocked == semValue = 0 \/ semWaiters # <<>>

\* No lock at all: every caller runs the section at once.
LockNeverBusy == FALSE

\* asyncio.Lock: the fast path of acquire() needs the lock free and no waiter.
LockBusy == lockHolder # <<>> \/ lockWaiters # <<>>

\* The body of "async with self._lock" up to its first suspension, run by
\* caller c once it holds the lock: either it has to sleep, or it stamps
\* _last_request_time, leaves the lock and acquire() returns.
LockSection(c) ==
    IF WaitTime(mono, last_request_time) > 0
    THEN /\ limPc' = [limPc EXCEPT ![c] = "sleeping"]
         /\ lockHolder' = <<c>>
         /\ wakeAt' = [wakeAt EXCEPT ![c] = mono + WaitTime(mono, last_request_time)]
         /\ UNCHANGED <<last_request_time, prevReturn, lastReturn>>
    ELSE /\ limPc' = [limPc EXCEPT ![c] = "holding"]
         /\ lockHolder' = <<>>
         /\ last_request_time' = mono
         /\ prevReturn' = lastReturn
         /\ lastReturn' = <<mono>>
         /\ UNCHANGED wakeAt

\* Caller c has its slot and reaches "async with self._lock".
EnterLock(c) ==
    IF LockBusy
    THEN /\ lockWaiters' = Append(lockWaiters, c)
         /\ limPc' = [limPc EXCEPT ![c] = "wait_lock"]
         /\ UNCHANGED <<lockHolder, last_request_time, wakeAt, prevReturn, lastReturn>>
    ELSE /\ LockSection(c)
         /\ UNCHANGED lockWaiters

\* acquire() is called: up to the first point where the caller is suspended.
Acquire(c) ==
    /\ limPc[c] = "idle"
    /\ acquires < MaxAcquires
    /\ acquires' = acquires + 1
    /\ IF SemLocked
       THEN /\ semWaiters' = Append(semWaiters, c)
            /\ limPc' = [limPc EXCEPT ![c] = "wait_sem"]
            /\ UNCHANGED <<semValue, lockHolder, lockWaiters, last_request_time, wakeAt,
                           prevReturn, lastReturn>>
       ELSE /\ semValue' = semValue - 1
            /\ EnterLock(c)
            /\ UNCHANGED semWaiters
    /\ UNCHANGED mono
    /\ UNCHANGED <<crawlVars, adVars, pipeVars, fetchVars, cbVars>>

\* The first waiter of the semaphore is woken by a release and takes the slot.
SemGranted(c) ==
    /\ limPc[c] = "wait_sem"
    /\ semWaiters # <<>> /\ Head(semWaiters) = c
    /\ semValue > 0
    /\ semValue' = semValue - 1
    /\ semWaiters' = Tail(semWaiters)
    /\ EnterLock(c)
    /\ UNCHANGED <<mono, acquires>>
    /\ UNCHANGED <<crawlVars, adVars, pipeVars, fetchVars, cbVars>>

\* The first waiter of the lock is woken and runs the locked section.
LockGranted(c) ==
    /\ limPc[c] = "wait_lock"
    /\ lockWaiters # <<>> /\ Head(lockWaiters) = c
    /\ lockHolder = <<>>
    /\ lockWaiters' = Tail(lockWaiters)
    /\ LockSection(c)
    /\ UNCHANGED <<semValue, semWaiters, mono, acquires>>
    /\ UNCHANGED <<crawlVars, adVars, pipeVars, fetchVars, cbVars>>

\* asyncio.sleep(wait_time) is over: the caller stamps _last_request_time,
\* leaves the lock and acquire() returns.
Wake(c) ==
    /\ limPc[c] = "sleeping"
    /\ mono >= wakeAt[c]
    /\ limPc' = [limPc EXCEPT ![c] = "holding"]
    /\ lockHolder' = <<>>
    /\ last_request_time' = mono
    /\ prevReturn' = lastReturn
    /\ lastReturn' = <<mono>>
    /\ wakeAt' = [wakeAt EXCEPT ![c] = 0]
    /\ UNCHANGED <<semValue, semWaiters, lockWaiters, mono, acquires>>
    /\ UNCHANGED <<crawlVars, adVars, pipeVars, fetchVars, cbVars>>

\* release()
Release(c) ==
    /\ limPc[c] = "holding"
    /\ semValue' = semValue + 1
    /\ limPc' = [limPc EXCEPT ![c] = "idle"]
    /\ UNCHANGED <<acquires, semWaiters, lockHolder, lockWaiters, mono, last_request_time, wakeAt,
                   prevReturn, lastReturn>>
    /\ UNCHANGED <<crawlVars, adVars, pipeVars, fetchVars, cbVars>>

\* Time passes. Once more than MinDelay has passed since the last request,
\* more time changes nothing, so the clock is not advanced further.
Tick ==
    /\ mono - last_request_time <= MinDelay
    /\ mono' = mono + 1
    /\ UNCHANGED <<limPc, semValue, semWaiters, lockHolder, lockWaiters, last_request_time,
                   wakeAt, acquires, prevReturn, lastReturn>>
    /\ UNCHANGED <<crawlVars, adVars, pipeVars, fetchVars, cbVars>>

LimiterInit ==
    /\ CrawlIdle
    /\ LimiterIdle
    /\ mono \in {0, MinDelay + 1}
    /\ AdaptiveFresh(DefaultConfig)
    /\ PipelineIdle
    /\ FetchIdle
    /\ CircuitIdle

LimiterNext ==
    \/ \E c \in CALLERS : Acquire(c)
    \/ \E c \in CALLERS : SemGranted(c)
    \/ \E c \in CALLERS : LockGranted(c)
    \/ \E c \in CALLERS : Wake(c)
    \/ \E c \in CALLERS : Release(c)
    \/ Tick

\* The event loop runs every task that is ready, time passes, and every
\* caller that holds a slot releases it.
LimiterFairness ==
    /\ \A c \in CALLERS : WF_vars(SemGranted(c))
    /\ \A c \in CALLERS : WF_vars(LockGranted(c))
    /\ \A c \in CALLERS : WF_vars(Wake(c))
    /\ \A c \in CALLERS : WF_vars(Release(c))
    /\ WF_vars(Tick)

LimiterSpec == LimiterInit /\ [][LimiterNext]_vars /\ LimiterFairness

\* The task of caller c is cancelled while acquire() is suspended.  CancelledError
\* is raised at the await: a wait for the semaphore has taken no slot; a wait
\* for the lock ends; a sleep inside "async with self._lock" leaves the lock.
\* acquire() has no handler, so nothing calls release(), and __aexit__ does
\* not run for an __aenter__ that raised.
Cancel(c) ==
    /\ limPc[c] \in {"wait_sem", "wait_lock", "sleeping"}
    /\ limPc' = [limPc EXCEPT ![c] = "idle"]
    /\ semWaiters' = SelectSeq(semWaiters, LAMBDA w : w # c)
    /\ lockWaiters' = SelectSeq(lockWaiters, LAMBDA w : w # c)
    /\ lockHolder' = IF lockHolder = <<c>> THEN <<>> ELSE lockHolder
    /\ wakeAt' = [wakeAt EXCEPT ![c] = 0]
    /\ UNCHANGED <<semValue, mono, last_request_time, acquires, prevReturn, lastReturn>>
    /\ UNCHANGED <<crawlVars, adVars, pipeVars, fetchVars, cbVars>>

CancelNext ==
    \/ LimiterNext
    \/ \E c \in CALLERS : Cancel(c)

\* The limiter used by tasks that may be cancelled.
CancelSpec == LimiterInit /\ [][CancelNext]_vars

\* ---------------------------------------------------------- claims: limiter
\* C29: a caller cancelled inside acquire() after it took a slot gives the
\* slot back: the free slots and the slots of the callers that are inside
\* acquire() or hold the limiter always add up to max_concurrent, so with
\* every caller finished all max_concurrent slots are free.
C29_NoSlotLeak ==
    semValue + Cardinality({c \in 1..NumCallers : limPc[c] \in {"wait_lock", "sleeping", "holding"}})
        = MaxConcurrent

Holders == {c \in CALLERS : limPc[c] = "holding"}

\* C8: the callers that have returned from acquire() and not yet released
\* never number more than max_concurrent, and a caller blocked on a full pool
\* gets its slot after a holder releases.
C8_ConcurrencyBound ==
    /\ [](Cardinality(Holders) <= MaxConcurrent)
    /\ \A c \in CALLERS : (limPc[c] = "wait_sem") ~> (limPc[c] # "wait_sem")

C8_Witness ==
    /\ Cardinality(Holders) = MaxConcurrent
    /\ \E c \in CALLERS : limPc[c] = "wait_sem"

\* C9: two successive acquire() calls return at least min_delay apart,
\* whichever callers they are.
C9_Spacing ==
    (prevReturn # <<>> /\ lastReturn # <<>>) => lastReturn[1] - prevReturn[1] >= MinDelay

C9_Witness ==
    /\ prevReturn # <<>>
    /\ lastReturn # <<>>
    /\ lastReturn[1] - prevReturn[1] = MinDelay
    /\ Cardinality(Holders) = MaxConcurrent

\* ------------------------------------------------------ AdaptiveRateLimiter
\* A back-off that treats a rate limit like any other failure.
FailureDelaySame(cfg, delay, is_rate_limit) ==
    FMin(cfg.max_delay, FMul(delay, cfg.backoff_factor))

\* The delay report_failure sets: "min(self.max_delay, self._current_delay * factor)"
\* with factor = backoff_factor * 2 for a rate limit.
FailureDelay(cfg, delay, is_rate_limit) ==
    LET factor == IF is_rate_limit THEN FMul(cfg.backoff_factor, Frac(2, 1))
                  ELSE cfg.backoff_factor
    IN FMin(cfg.max_delay, FMul(delay, factor))

\* A recovery that multiplies the delay and forgets the floor.
RecoveryDelayUnfloored(cfg, delay) == FMul(delay, cfg.recovery_factor)

\* The delay report_success sets once enough successes have been counted.
RecoveryDelay(cfg, delay) ==
    LET new_delay == FMax(cfg.min_delay, FMul(delay, cfg.recovery_factor))
    IN IF FLess(new_delay, delay) THEN new_delay ELSE delay

ReportSuccess ==
    /\ Len(adLog) < MaxOps
    /\ consecutive_failures' = 0
    /\ IF consecutive_successes + 1 >= RecoveryThreshold
       THEN /\ current_delay' = RecoveryDelay(adCfg, current_delay)
            /\ consecutive_successes' = 0
       ELSE /\ consecutive_successes' = consecutive_successes + 1
            /\ UNCHANGED current_delay
    /\ adLog' = Append(adLog, "success")
    /\ UNCHANGED <<adCfg, crawlVars, limVars, pipeVars, fetchVars, cbVars>>

ReportFailure(is_rate_limit) ==
    /\ Len(adLog) < MaxOps
    /\ consecutive_failures' = consecutive_failures + 1
    /\ consecutive_successes' = 0
    /\ current_delay' = FailureDelay(adCfg, current_delay, is_rate_limit)
    /\ adLog' = Append(adLog, IF is_rate_limit THEN "rate_limit" ELSE "failure")
    /\ UNCHANGED <<adCfg, crawlVars, limVars, pipeVars, fetchVars, cbVars>>

Reset ==
    /\ Len(adLog) < MaxOps
    /\ current_delay' = adCfg.base_delay
    /\ consecutive_successes' = 0
    /\ consecutive_failures' = 0
    /\ adLog' = Append(adLog, "reset")
    /\ UNCHANGED <<adCfg, crawlVars, limVars, pipeVars, fetchVars, cbVars>>

AdaptiveInit ==
    /\ CrawlIdle
    /\ LimiterIdle
    /\ mono = 0
    /\ \E cfg \in AdaptiveConfigs : AdaptiveFresh(cfg)
    /\ PipelineIdle
    /\ FetchIdle
    /\ CircuitIdle

AdaptiveNext ==
    \/ ReportSuccess
    \/ \E is_rate_limit \in BOOLEAN : ReportFailure(is_rate_limit)
    \/ Reset

AdaptiveSpec == AdaptiveInit /\ [][AdaptiveNext]_vars

\* ------------------------------------- AdaptiveRateLimiter.acquire / release
\* The adaptive limiter has the fields of RateLimiter (_semaphore, _lock,
\* _last_request_time) and the same acquire(), with _current_delay in the
\* place of min_delay; here those variables are the adaptive limiter's.

\* The first tick of the clock at which a wait of delay d is over.
Ceil(d) == (d.n + d.d - 1) \div d.d

\* "wait_time = self._current_delay - elapsed; if wait_time > 0"
AdaptiveMustWait == FLess(Frac(mono - last_request_time, 1), current_delay)

\* The body of "async with self._lock" up to its first suspension.
AdaptiveLockSection(c) ==
    IF AdaptiveMustWait
    THEN /\ limPc' = [limPc EXCEPT ![c] = "sleeping"]
         /\ lockHolder' = <<c>>
         /\ wakeAt' = [wakeAt EXCEPT ![c] = last_request_time + Ceil(current_delay)]
         /\ UNCHANGED <<last_request_time, prevReturn, lastReturn>>
    ELSE /\ limPc' = [limPc EXCEPT ![c] = "holding"]
         /\ lockHolder' = <<>>
         /\ last_request_time' = mono
         /\ prevReturn' = lastReturn
         /\ lastReturn' = <<mono>>
         /\ UNCHANGED wakeAt

AdaptiveEnterLock(c) ==
    IF LockBusy
    THEN /\ lockWaiters' = Append(lockWaiters, c)
         /\ limPc' = [limPc EXCEPT ![c] = "wait_lock"]
         /\ UNCHANGED <<lockHolder, last_request_time, wakeAt, prevReturn, lastReturn>>
    ELSE /\ AdaptiveLockSection(c)
         /\ UNCHANGED lockWaiters

\* AdaptiveRateLimiter.acquire() up to its first suspension.
AdaptiveAcquire(c) ==
    /\ limPc[c] = "idle"
    /\ acquires < MaxAcquires
    /\ acquires' = acquires + 1
    /\ IF SemLocked
       THEN /\ semWaiters' = Append(semWaiters, c)
            /\ limPc' = [limPc EXCEPT ![c] = "wait_sem"]
            /\ UNCHANGED <<semValue, lockHolder, lockWaiters, last_request_time, wakeAt,
                           prevReturn, lastReturn>>
       ELSE /\ semValue' = semValue - 1
            /\ AdaptiveEnterLock(c)
            /\ UNCHANGED semWaiters
    /\ UNCHANGED <<mono, crawlVars, adVars, pipeVars, fetchVars, cbVars>>

AdaptiveSemGranted(c) ==
    /\ limPc[c] = "wait_sem"
    /\ semWaiters # <<>> /\ Head(semWaiters) = c
    /\ semValue > 0
    /\ semValue' = semValue - 1
    /\ semWaiters' = Tail(semWaiters)
    /\ AdaptiveEnterLock(c)
    /\ UNCHANGED <<mono, acquires, crawlVars, adVars, pipeVars, fetchVars, cbVars>>

AdaptiveLockGranted(c) ==
    /\ limPc[c] = "wait_lock"
    /\ lockWaiters # <<>> /\ Head(lockWaiters) = c
    /\ lockHolder = <<>>
    /\ lockWaiters' = Tail(lockWaiters)
    /\ AdaptiveLockSection(c)
    /\ UNCHANGED <<semValue, semWaiters, mono, acquires, crawlVars, adVars, pipeVars, fetchVars, cbVars>>

\* The sleep is over: the stamp is written, the lock left, acquire() returns.
AdaptiveWake(c) ==
    /\ limPc[c] = "sleeping"
    /\ mono >= wakeAt[c]
    /\ limPc' = [limPc EXCEPT ![c] = "holding"]
    /\ lockHolder' = <<>>
    /\ last_request_time' = mono
    /\ prevReturn' = lastReturn
    /\ lastReturn' = <<mono>>
    /\ wakeAt' = [wakeAt EXCEPT ![c] = 0]
    /\ UNCHANGED <<semValue, semWaiters, lockWaiters, mono, acquires, crawlVars, adVars,
                   pipeVars, fetchVars, cbVars>>

\* __aexit__: release(), and report_success() when the block raised nothing.
AdaptiveExit(c, raised) ==
    /\ limPc[c] = "holding"
    /\ semValue' = semValue + 1
    /\ limPc' = [limPc EXCEPT ![c] = "idle"]
    /\ IF raised THEN UNCHANGED adVars
       ELSE /\ consecutive_failures' = 0
            /\ IF consecutive_successes + 1 >= RecoveryThreshold
               THEN /\ current_delay' = RecoveryDelay(adCfg, current_delay)
                    /\ consecutive_successes' = 0
               ELSE /\ consecutive_successes' = consecutive_successes + 1
                    /\ UNCHANGED current_delay
            /\ adLog' = Append(adLog, "success")
            /\ UNCHANGED adCfg
    /\ UNCHANGED <<acquires, semWaiters, lockHolder, lockWaiters, mono, last_request_time,
                   wakeAt, prevReturn, lastReturn, crawlVars, pipeVars, fetchVars, cbVars>>

\* Time passes, as long as a wait of the current delay can still be running.
AdaptiveTick ==
    /\ mono - last_request_time < Ceil(current_delay)
    /\ mono' = mono + 1
    /\ UNCHANGED <<limPc, semValue, semWaiters, lockHolder, lockWaiters, last_request_time,
                   wakeAt, acquires, prevReturn, lastReturn, crawlVars, adVars, pipeVars,
                   fetchVars, cbVars>>

\* A caller of the limiter reports the outcome of its request, or resets it.
AdaptiveReport ==
    /\ Len(adLog) < MaxReports
    /\ (ReportSuccess \/ (\E is_rate_limit \in BOOLEAN : ReportFailure(is_rate_limit)) \/ Reset)

AdaptiveAcquireNext ==
    \/ \E c \in CALLERS : AdaptiveAcquire(c)
    \/ \E c \in CALLERS : AdaptiveSemGranted(c)
    \/ \E c \in CALLERS : AdaptiveLockGranted(c)
    \/ \E c \in CALLERS : AdaptiveWake(c)
    \/ \E c \in CALLERS, raised \in BOOLEAN : AdaptiveExit(c, raised)
    \/ AdaptiveTick
    \/ AdaptiveReport

\* The adaptive limiter of test_respects_max_delay, shared by concurrent callers.
AdaptiveAcquireInit ==
    /\ CrawlIdle
    /\ LimiterIdle
    /\ mono \in {0, 1}
    /\ AdaptiveFresh(MaxDelayTestConfig)
    /\ PipelineIdle
    /\ FetchIdle
    /\ CircuitIdle

AdaptiveAcquireSpec == AdaptiveAcquireInit /\ [][AdaptiveAcquireNext]_vars

\* C26: the delay and the success and failure counters change only while no
\* caller is inside the locked section of acquire(), and when acquire()
\* returns, the time since the previous request is at least the delay then
\* in force.
C26_MutatedUnderLock ==
    /\ [][lockHolder # <<>> =>
            UNCHANGED <<current_delay, consecutive_successes, consecutive_failures>>]_vars
    /\ [][\A c \in 1..NumCallers :
            (limPc[c] # "holding" /\ limPc'[c] = "holding") =>
                FLeq(current_delay', Frac(mono - last_request_time, 1))]_vars

\* ------------------------------------------------- claims: adaptive limiter
Ten == Frac(10, 1)

FiveRateLimits == [i \in 1..5 |-> "rate_limit"]

\* C10: report_failure sets current_delay to min(max_delay, current_delay * f)
\* with f = backoff_factor, or 2 * backoff_factor for a rate limit, so after a
\* failure current_delay <= max_delay; five rate-limited failures from
\* base_delay 1, backoff_factor 2 and max_delay 10 leave it at exactly 10.
C10_Backoff ==
    /\ [][(adLog' # adLog /\ adLog'[Len(adLog')] \in {"failure", "rate_limit"}) =>
            LET f == IF adLog'[Len(adLog')] = "rate_limit"
                     THEN Frac(2 * adCfg.backoff_factor.n, adCfg.backoff_factor.d)
                     ELSE adCfg.backoff_factor
                raised == Frac(current_delay.n * f.n, current_delay.d * f.d)
            IN current_delay' = IF FLeq(raised, adCfg.max_delay) THEN raised
                                ELSE adCfg.max_delay]_vars
    /\ []((adLog # <<>> /\ adLog[Len(adLog)] \in {"failure", "rate_limit"}) =>
            FLeq(current_delay, adCfg.max_delay))
    /\ []((adCfg = MaxDelayTestConfig /\ adLog = FiveRateLimits) => current_delay = Ten)

C10_Witness ==
    /\ adCfg = MaxDelayTestConfig
    /\ adLog = FiveRateLimits
    /\ current_delay = Ten
    /\ consecutive_failures = 5

\* The number of "success" entries at the end of the log of reports.
RECURSIVE TrailingSuccesses(_)
TrailingSuccesses(log) ==
    IF log = <<>> \/ log[Len(log)] # "success" THEN 0
    ELSE 1 + TrailingSuccesses(SubSeq(log, 1, Len(log) - 1))

\* C11: report_success lowers current_delay only on the 5th success in a row
\* since the last failure, reset or reduction; on that call current_delay
\* becomes max(min_delay, current_delay * recovery_factor) and the success
\* counter returns to 0; report_failure resets the success counter; and
\* current_delay never goes below min_delay.
C11_Recovery ==
    /\ [][(adLog' # adLog /\ adLog'[Len(adLog')] = "success") =>
            LET run == TrailingSuccesses(adLog') IN
            IF run % RecoveryThreshold = 0
            THEN /\ current_delay' =
                        FMax(adCfg.min_delay, FMul(current_delay, adCfg.recovery_factor))
                 /\ consecutive_successes' = 0
            ELSE /\ current_delay' = current_delay
                 /\ consecutive_successes' = consecutive_successes + 1]_vars
    /\ [][(adLog' # adLog /\ adLog'[Len(adLog')] \in {"failure", "rate_limit"}) =>
            consecutive_successes' = 0]_vars
    /\ [](consecutive_successes = TrailingSuccesses(adLog) % RecoveryThreshold)
    /\ [](FLeq(adCfg.min_delay, current_delay))

C11_Witness ==
    /\ adCfg = MaxDelayTestConfig
    /\ adLog = <<"failure", "success", "success", "success", "success", "success">>
    /\ current_delay = Frac(9, 5)
    /\ consecutive_successes = 0

\* ------------------------------------------------------------- Python str
\* A str is a sequence of atoms: one-character strings, and "X", which stands
\* for a run of BlockLen letters.
Size(a) == IF a = "X" THEN BlockLen ELSE 1

RECURSIVE StrLen(_)
StrLen(s) == IF s = <<>> THEN 0 ELSE Size(Head(s)) + StrLen(Tail(s))

Whitespace == {" ", "\n", "\r"}

Digits == {"0", "1", "2", "3", "4", "5", "6", "7", "8", "9"}

DigitVal(a) ==
    CASE a = "0" -> 0 [] a = "1" -> 1 [] a = "2" -> 2 [] a = "3" -> 3 [] a = "4" -> 4
      [] a = "5" -> 5 [] a = "6" -> 6 [] a = "7" -> 7 [] a = "8" -> 8 [] a = "9" -> 9

\* int(ds) for a str of digits
RECURSIVE IntOf(_)
IntOf(ds) ==
    IF ds = <<>> THEN 0
    ELSE 10 * IntOf(SubSeq(ds, 1, Len(ds) - 1)) + DigitVal(ds[Len(ds)])

\* The number of leading atoms of s that are in set.
RECURSIVE Run(_, _)
Run(s, set) == IF s # <<>> /\ Head(s) \in set THEN 1 + Run(Tail(s), set) ELSE 0

\* str.strip(chars): atoms of set removed from both ends.
StripChars(s, set) ==
    LET l == SubSeq(s, Run(s, set) + 1, Len(s))
        rev == [k \in 1..Len(l) |-> l[Len(l) + 1 - k]]
    IN SubSeq(l, 1, Len(l) - Run(rev, set))

Strip(s) == StripChars(s, Whitespace)

StartsWith(s, pre) == Len(s) >= Len(pre) /\ SubSeq(s, 1, Len(pre)) = pre

\* str.replace(old, new)
RECURSIVE Replace(_, _, _)
Replace(s, old, new) ==
    IF s = <<>> THEN <<>>
    ELSE IF StartsWith(s, old)
         THEN new \o Replace(SubSeq(s, Len(old) + 1, Len(s)), old, new)
         ELSE <<Head(s)>> \o Replace(Tail(s), old, new)

\* str.split(sep), with the part being accumulated.
RECURSIVE SplitAcc(_, _, _)
SplitAcc(s, sep, part) ==
    IF s = <<>> THEN <<part>>
    ELSE IF StartsWith(s, sep)
         THEN <<part>> \o SplitAcc(SubSeq(s, Len(sep) + 1, Len(s)), sep, <<>>)
         ELSE SplitAcc(Tail(s), sep, Append(part, Head(s)))

Split(s, sep) == SplitAcc(s, sep, <<>>)

\* sep.join(parts)
RECURSIVE Join(_, _)
Join(parts, sep) ==
    IF parts = <<>> THEN <<>>
    ELSE IF Len(parts) = 1 THEN parts[1]
    ELSE parts[1] \o sep \o Join(Tail(parts), sep)

NonBlank(s) == Strip(s) # <<>>

\* [x for x in seq if x.strip()]
RECURSIVE KeepNonBlank(_)
KeepNonBlank(seq) ==
    IF seq = <<>> THEN <<>>
    ELSE (IF NonBlank(Head(seq)) THEN <<Head(seq)>> ELSE <<>>) \o KeepNonBlank(Tail(seq))

\* [x for x in seq if x]
RECURSIVE KeepNonEmpty(_)
KeepNonEmpty(seq) ==
    IF seq = <<>> THEN <<>>
    ELSE (IF Head(seq) # <<>> THEN <<Head(seq)>> ELSE <<>>) \o KeepNonEmpty(Tail(seq))

\* ----------------------------------------------------------------- chunking
\* PARA_MARKER_RE.match(s): <<group 1>> for a match, <<>> for none.  The
\* pattern is  ^\s*( \[\d+\] | (\d+) | \\d+\. )\s+  : bracketed digits, bare
\* digits (the parentheses of the second alternative are a group), or a
\* backslash, one or more letters d and a full stop.
ParaMarkerMatch(s) ==
    LET t == SubSeq(s, Run(s, Whitespace) + 1, Len(s))
        IsSpaceAt(k) == k <= Len(t) /\ t[k] \in Whitespace
        nb == IF t # <<>> /\ t[1] = "[" THEN Run(Tail(t), Digits) ELSE 0
        nd == Run(t, Digits)
        ne == IF t # <<>> /\ t[1] = "\\" THEN Run(Tail(t), {"d"}) ELSE 0
    IN IF nb > 0 /\ Len(t) >= nb + 2 /\ t[nb + 2] = "]" /\ IsSpaceAt(nb + 3)
            THEN <<SubSeq(t, 1, nb + 2)>>
       ELSE IF nd > 0 /\ IsSpaceAt(nd + 1) THEN <<SubSeq(t, 1, nd)>>
       ELSE IF ne > 0 /\ Len(t) >= ne + 2 /\ t[ne + 2] = "." /\ IsSpaceAt(ne + 3)
            THEN <<SubSeq(t, 1, ne + 2)>>
       ELSE <<>>

\* flush_current
FlushCurrent(paras, current) ==
    IF current # <<>>
    THEN Append(paras, Join([k \in 1..Len(KeepNonBlank(current)) |->
                                Strip(KeepNonBlank(current)[k])], <<" ">>))
    ELSE paras

\* The loop over the lines of _split_into_paragraphs.
RECURSIVE SplitLines(_, _, _)
SplitLines(lines, paras, current) ==
    IF lines = <<>> THEN FlushCurrent(paras, current)
    ELSE LET line == Head(lines) IN
        IF ~NonBlank(line) THEN SplitLines(Tail(lines), FlushCurrent(paras, current), <<>>)
        ELSE IF ParaMarkerMatch(line) # <<>> /\ current # <<>>
             THEN SplitLines(Tail(lines), FlushCurrent(paras, current), <<line>>)
        ELSE SplitLines(Tail(lines), paras, Append(current, line))

\* _split_into_paragraphs
SplitIntoParagraphs(text) ==
    LET lines == Split(Replace(Replace(text, <<"\r", "\n">>, <<"\n">>), <<"\r">>, <<"\n">>),
                       <<"\n">>)
    IN KeepNonEmpty(SplitLines(lines, <<>>, <<>>))

\* _guess_paragraph_number: <<n>>, or <<>> for None.
GuessParagraphNumber(para) ==
    LET m == ParaMarkerMatch(para) IN
    IF m = <<>> THEN <<>>
    ELSE LET raw == StripChars(m[1], {"[", "]", "(", ")", "."}) IN
         IF raw # <<>> /\ Run(raw, Digits) = Len(raw) THEN <<IntOf(raw)>> ELSE <<>>

\* An inner while that tests the budget before it adds the paragraph.
RECURSIVE FillOverBudget(_, _, _, _)
FillOverBudget(paragraphs, max_chars, i, length) ==
    IF i < Len(paragraphs) /\ length <= max_chars
    THEN FillOverBudget(paragraphs, max_chars, i + 1, length + StrLen(paragraphs[i + 1]))
    ELSE i

\* The inner while of _group_paragraphs_into_chunks: the index i it stops at.
RECURSIVE Fill(_, _, _, _)
Fill(paragraphs, max_chars, i, length) ==
    IF i < Len(paragraphs) /\ length + StrLen(paragraphs[i + 1]) <= max_chars
    THEN Fill(paragraphs, max_chars, i + 1, length + StrLen(paragraphs[i + 1]))
    ELSE i

Max(a, b) == IF a >= b THEN a ELSE b

\* A next start that leaves out the paragraph after the chunk.
NextStartSkipping(from, i, overlap_paras) == i + 1

\* A next start that steps back by the overlap whatever the chunk's size.
NextStartAlwaysBack(from, i, overlap_paras) == Max(i - overlap_paras, 0)

\* "start = max(i - overlap_paras, 0) if i - overlap_paras > start else i"
NextStart(from, i, overlap_paras) ==
    IF i - overlap_paras > from THEN Max(i - overlap_paras, 0) ELSE i

\* The outer while, as the spans paragraphs[start:i] of its successive chunks
\* (indices from 0, as in the code; from is the code's start).  left bounds the iterations the
\* evaluation follows; the code has no such bound.
RECURSIVE GroupSpans(_, _, _, _, _)
GroupSpans(paragraphs, max_chars, overlap_paras, from, left) ==
    IF ~(from < Len(paragraphs)) \/ left = 0 THEN <<>>
    ELSE LET filled == Fill(paragraphs, max_chars, from, 0)
             i == IF filled = from THEN from + 1 ELSE filled
         IN <<[start |-> from, i |-> i]>> \o
            (IF i >= Len(paragraphs) THEN <<>>
             ELSE GroupSpans(paragraphs, max_chars, overlap_paras,
                             NextStart(from, i, overlap_paras), left - 1))

\* _group_paragraphs_into_chunks
GroupParagraphsIntoChunks(paragraphs, max_chars, overlap_paras) ==
    LET spans == GroupSpans(paragraphs, max_chars, overlap_paras, 0, 2 * Len(paragraphs) + 1)
    IN [k \in 1..Len(spans) |-> SubSeq(paragraphs, spans[k].start + 1, spans[k].i)]

Chunk(doc_type, doc_id, chunk_index, text, chunk_type, paragraph_numbers, section_path) ==
    [doc_type |-> doc_type, doc_id |-> doc_id, chunk_index |-> chunk_index, text |-> text,
     chunk_type |-> chunk_type, paragraph_numbers |-> paragraph_numbers,
     section_path |-> section_path]

\* An enumerate that counts from 1.
EnumerateFromOne(seq) == [k \in 1..Len(seq) |-> [idx |-> k, x |-> seq[k]]]

\* enumerate(seq)
Enumerate(seq) == [k \in 1..Len(seq) |-> [idx |-> k - 1, x |-> seq[k]]]

\* "[n for n in (_guess_paragraph_number(p) for p in para_group) if n is not None]"
RECURSIVE ParaNums(_)
ParaNums(para_group) ==
    IF para_group = <<>> THEN <<>>
    ELSE GuessParagraphNumber(Head(para_group)) \o ParaNums(Tail(para_group))

\* chunk_case_text
ChunkCaseText(case_id, full_text) ==
    LET paragraphs == SplitIntoParagraphs(full_text)
        para_chunks == GroupParagraphsIntoChunks(paragraphs, ChunkMaxChars, DefaultOverlapParas)
        total == Len(para_chunks)
        en == Enumerate(para_chunks)
    IN [k \in 1..total |->
          LET idx == en[k].idx
              para_nums == ParaNums(en[k].x)
          IN Chunk("case", case_id, idx, Join(en[k].x, <<"\n">>),
                   IF idx = 0 THEN "facts" ELSE IF idx = total - 1 THEN "order" ELSE "reasoning",
                   IF para_nums = <<>> THEN <<>> ELSE <<para_nums>>,
                   <<>>)]

\* chunk_legislation_section
ChunkLegislationSection(section_id, content, section_path) ==
    LET text == Strip(content) IN
    IF text = <<>> THEN <<>>
    ELSE IF StrLen(text) <= ChunkMaxChars
         THEN <<Chunk("legislation", section_id, 0, text, "section_body", <<>>, section_path)>>
    ELSE LET paras == KeepNonBlank(Split(text, <<"\n", "\n">>))
             en == Enumerate(GroupParagraphsIntoChunks(paras, ChunkMaxChars, 1))
         IN [k \in 1..Len(en) |->
               Chunk("legislation", section_id, en[k].idx, Join(en[k].x, <<"\n", "\n">>),
                     "section_body", <<>>, section_path)]

\* ---------------------------------------------------------------- citations
\* In a citation text the atoms are one-character strings and court or report
\* codes, each code one atom in upper or lower case.
Upper(a) == CASE a = "hkcfa" -> "HKCFA" [] a = "hca" -> "HCA" [] OTHER -> a

\* The four compiled patterns: the codes of the alternation (those written
\* with inner whitespace, "All ER" and "EWCA Civ", are not among the atoms),
\* whether a volume number precedes the code and the least whitespace after
\* it, and whether the final number may be absent.
CitationPattern(jurisdiction, courts, volume, volume_gap, number) ==
    [jurisdiction |-> jurisdiction, courts |-> courts, volume |-> volume,
     volume_gap |-> volume_gap, number |-> number]

HK_CITATION_PATTERN ==
    CitationPattern("HK", {"HKCFA", "HKCA", "HKCFI", "HKDC", "HKFC", "HKLT", "HKLAB", "HKSCT",
                           "HKEC", "HKMC", "HKHKEC"}, "none", 0, "required")

HK_LAW_REPORTS_PATTERN ==
    CitationPattern("HK", {"HKLR", "HKLRD", "HKCFAR", "HKC"}, "required", 0, "required")

UK_CITATION_PATTERN ==
    CitationPattern("UK", {"AC", "QB", "WLR", "UKSC", "UKHL", "UKPC", "EWCA", "EWHC"},
                    "optional", 1, "optional")

AU_CITATION_PATTERN ==
    CitationPattern("AU", {"HCA", "FCAFC", "FCA", "NSWCA", "NSWSC", "VSCA", "VSC", "QCA", "QSC"},
                    "none", 0, "required")

ParsedCitation(full_citation, year, court, number, jurisdiction, volume) ==
    [full_citation |-> full_citation, year |-> year, court |-> court, number |-> number,
     jurisdiction |-> jurisdiction, volume |-> volume]

\* The match of pattern p at the start of t, as <<ParsedCitation>>, or <<>>.
MatchAt(p, t) ==
    LET Rest(k) == SubSeq(t, k, Len(t))
        yearOk == /\ Len(t) >= 6 /\ t[1] = "[" /\ t[6] = "]"
                  /\ \A k \in 2..5 : t[k] \in Digits
        c0 == 7 + Run(Rest(7), Whitespace)
        vd == Run(Rest(c0), Digits)
        vs == Run(Rest(c0 + vd), Whitespace)
        CourtAt(k) == k <= Len(t) /\ Upper(t[k]) \in p.courts
        withVol == p.volume # "none" /\ vd > 0 /\ vs >= p.volume_gap /\ CourtAt(c0 + vd + vs)
        c == IF withVol THEN c0 + vd + vs ELSE c0
        ns == Run(Rest(c + 1), Whitespace)
        nd == Run(Rest(c + 1 + ns), Digits)
        end == c + ns + nd
    IN IF /\ yearOk
          /\ (withVol \/ (p.volume # "required" /\ CourtAt(c0)))
          /\ (nd > 0 \/ p.number = "optional")
       THEN <<ParsedCitation(SubSeq(t, 1, end), IntOf(SubSeq(t, 2, 5)), Upper(t[c]),
                             IF nd > 0 THEN IntOf(SubSeq(t, c + 1 + ns, end)) ELSE 0,
                             p.jurisdiction,
                             IF withVol THEN <<IntOf(SubSeq(t, c0, c0 + vd - 1))>> ELSE <<>>)>>
       ELSE <<>>

\* A seen set that never holds anything.
SeenNever(citations, full) == FALSE

\* "full in seen"
Seen(citations, full) == \E k \in 1..Len(citations) : citations[k].full_citation = full

\* The loop over p.finditer(text) of the four parse functions.
RECURSIVE FindAll(_, _, _)
FindAll(p, t, citations) ==
    IF t = <<>> THEN citations
    ELSE LET m == MatchAt(p, t) IN
         IF m = <<>> THEN FindAll(p, Tail(t), citations)
         ELSE FindAll(p, SubSeq(t, Len(m[1].full_citation) + 1, Len(t)),
                      IF Seen(citations, m[1].full_citation) THEN citations
                      ELSE Append(citations, m[1]))

\* parse_hk_citations
ParseHkCitations(text) == FindAll(HK_CITATION_PATTERN, text, <<>>)

\* extract_all_citations
ExtractAllCitations(text) ==
    ParseHkCitations(text) \o FindAll(HK_LAW_REPORTS_PATTERN, text, <<>>)
        \o FindAll(UK_CITATION_PATTERN, text, <<>>) \o FindAll(AU_CITATION_PATTERN, text, <<>>)

\* ------------------------------------------------------- pipeline: inputs
SeqsUpTo(S, n) == UNION {[1..k -> S] : k \in 0..n}

\* Lines with and without a leading marker of each form.
MarkerLines ==
    {pre \o m \o sep \o rest :
        pre \in {<<>>, <<" ">>},
        m \in {<<>>, <<"[", "1", "]">>, <<"(", "1", "2", ")">>, <<"2", ".">>, <<"1">>,
               <<"\\", "d", ".">>},
        sep \in {<<>>, <<" ">>},
        rest \in {<<>>, <<"a">>}}

\* One line, or two lines with a line ending or a blank line between them.
MarkerTexts ==
    MarkerLines \cup
    {l1 \o nl \o l2 : l1 \in MarkerLines, l2 \in MarkerLines,
                      nl \in {<<"\n">>, <<"\r", "\n">>, <<"\n", "\n">>}}

\* Texts long enough for several chunks.
LongTexts == SeqsUpTo({"X", "\n"}, MaxLongLen)

TextInput(text) == [kind |-> "text", text |-> text]

GroupInput(paragraphs, max_chars, overlap_paras) ==
    [kind |-> "paragraphs", paragraphs |-> paragraphs, max_chars |-> max_chars,
     overlap_paras |-> overlap_paras]

Letters(n) == [k \in 1..n |-> "a"]

\* Ten paragraphs of one size, three to a chunk, overlapping by one.
TenEqual == GroupInput([k \in 1..10 |-> Letters(1)], 3, 1)

GroupInputs ==
    {GroupInput(p, m, o) : p \in SeqsUpTo({Letters(n) : n \in 0..MaxParaLen}, MaxParas),
                           m \in 0..MaxChars, o \in 0..MaxOverlap}
    \cup {TenEqual}

Year2024 == <<"[", "2", "0", "2", "4", "]">>

HkExample == Year2024 \o <<" ", "HKCFA", " ", "1", "5">>

\* Citations of the four kinds, in several spellings, and text that is none.
CitePieces ==
    {HkExample,
     Year2024 \o <<" ", "hkcfa", " ", "1", "5">>,
     Year2024 \o <<"HKCFA", "1", "5">>,
     Year2024 \o <<" ", "2", " ", "HKLR", " ", "1", "5">>,
     Year2024 \o <<" ", "2", " ", "AC", " ", "1", "5">>,
     Year2024 \o <<" ", "UKSC">>,
     Year2024 \o <<" ", "HCA", " ", "1", "5">>,
     Year2024 \o <<" ", "XYZ", " ", "1", "5">>,
     <<"see">>}

CitationTexts == {Join(ps, <<" ">>) : ps \in SeqsUpTo(CitePieces, MaxCites)}

\* Items with no markup, empty markup or a page, and no error or an error.
Items == {Item(h, e) : h \in {<<>>, <<"">>, <<"good">>}, e \in {<<>>} \cup {<<m>> : m \in ErrMsgs}}

PipelineInputs ==
    {TextInput(t) : t \in MarkerTexts \cup LongTexts} \cup GroupInputs
    \cup {[kind |-> "citation_text", text |-> t] : t \in CitationTexts}
    \cup {[kind |-> "item", item |-> i] : i \in Items}

\* ------------------------------------------------------ pipeline: the calls
Call(kind, op, out) ==
    /\ fnOp = "input"
    /\ fnIn.kind = kind
    /\ fnOp' = op
    /\ fnOut' = out
    /\ UNCHANGED <<fnIn, crawlVars, limVars, adVars, fetchVars, cbVars>>

CallSplitIntoParagraphs ==
    Call("text", "_split_into_paragraphs", SplitIntoParagraphs(fnIn.text))

CallGuessParagraphNumber ==
    Call("text", "_guess_paragraph_number", GuessParagraphNumber(fnIn.text))

CallGroupParagraphsIntoChunks ==
    Call("paragraphs", "_group_paragraphs_into_chunks",
         [spans |-> GroupSpans(fnIn.paragraphs, fnIn.max_chars, fnIn.overlap_paras, 0,
                               2 * Len(fnIn.paragraphs) + 1),
          chunks |-> GroupParagraphsIntoChunks(fnIn.paragraphs, fnIn.max_chars,
                                               fnIn.overlap_paras)])

CallChunkCaseText == Call("text", "chunk_case_text", ChunkCaseText("doc", fnIn.text))

CallChunkLegislationSection ==
    Call("text", "chunk_legislation_section",
         ChunkLegislationSection("doc", fnIn.text, <<"Part 3 > s.4">>))

CallParseHkCitations ==
    Call("citation_text", "parse_hk_citations", ParseHkCitations(fnIn.text))

CallExtractAllCitations ==
    Call("citation_text", "extract_all_citations", ExtractAllCitations(fnIn.text))

CallIsValid == Call("item", "is_valid", IsValid(fnIn.item))

PipelineInit ==
    /\ CrawlIdle
    /\ LimiterIdle
    /\ mono = 0
    /\ AdaptiveFresh(DefaultConfig)
    /\ FetchIdle
    /\ CircuitIdle
    /\ fnIn \in PipelineInputs
    /\ fnOp = "input"
    /\ fnOut = <<>>

PipelineNext ==
    \/ CallSplitIntoParagraphs
    \/ CallGuessParagraphNumber
    \/ CallGroupParagraphsIntoChunks
    \/ CallChunkCaseText
    \/ CallChunkLegislationSection
    \/ CallParseHkCitations
    \/ CallExtractAllCitations
    \/ CallIsValid

PipelineSpec == PipelineInit /\ [][PipelineNext]_vars

\* ---------------------------------------------------------- claims: chunking
Chunked == fnOp \in {"chunk_case_text", "chunk_legislation_section"}

\* C12: the chunks chunk_case_text and chunk_legislation_section return have
\* chunk_index 0, 1, ..., n-1 in list order, and there is none (n = 0) for an
\* empty or whitespace-only text.
C12_IndexContiguity ==
    Chunked =>
        /\ \A k \in 1..Len(fnOut) : fnOut[k].chunk_index = k - 1
        /\ (\A k \in 1..Len(fnIn.text) : fnIn.text[k] \in Whitespace) => fnOut = <<>>

C12_Witness ==
    /\ fnOp = "chunk_case_text"
    /\ Len(fnOut) = 3
    /\ fnOut[3].chunk_index = 2

Grouped == fnOp = "_group_paragraphs_into_chunks"

\* C13: _group_paragraphs_into_chunks never splits or drops a paragraph: each
\* chunk is the run paragraphs[start:i] of whole input paragraphs, non-empty
\* and in input order, every input position lies in some chunk, and the
\* chunks' start positions are strictly increasing.
C13_ParagraphSafe ==
    Grouped =>
        LET n == Len(fnIn.paragraphs)
            spans == fnOut.spans
            chunks == fnOut.chunks
        IN /\ Len(chunks) = Len(spans)
           /\ \A k \in 1..Len(spans) :
                /\ 0 <= spans[k].start /\ spans[k].start < spans[k].i /\ spans[k].i <= n
                /\ chunks[k] = [j \in 1..(spans[k].i - spans[k].start) |->
                                   fnIn.paragraphs[spans[k].start + j]]
           /\ \A p \in 0..(n - 1) :
                \E k \in 1..Len(spans) : spans[k].start <= p /\ p < spans[k].i
           /\ \A k \in 1..(Len(spans) - 1) : spans[k].start < spans[k + 1].start

C13_Witness ==
    /\ Grouped
    /\ Len(fnIn.paragraphs) = MaxParas
    /\ fnIn.overlap_paras = 1
    /\ Len(fnOut.spans) = 3
    /\ \E k \in 1..2 : fnOut.spans[k + 1].start < fnOut.spans[k].i

\* C14: a chunk that holds more than overlap_paras paragraphs and is not the
\* last is followed by a chunk that begins with its last overlap_paras
\* paragraphs; a chunk that holds overlap_paras paragraphs or fewer is
\* followed by a chunk that begins at the first paragraph after it.  With ten
\* equal paragraphs, three to a chunk and an overlap of one, every chunk after
\* the first begins with the last paragraph of the chunk before it.
C14_Overlap ==
    Grouped =>
        LET spans == fnOut.spans
            chunks == fnOut.chunks
            o == fnIn.overlap_paras
        IN /\ \A k \in 1..(Len(spans) - 1) :
                IF spans[k].i - spans[k].start > o
                THEN /\ spans[k + 1].start = spans[k].i - o
                     /\ Len(chunks[k + 1]) >= o
                     /\ SubSeq(chunks[k + 1], 1, o) =
                            SubSeq(chunks[k], Len(chunks[k]) - o + 1, Len(chunks[k]))
                ELSE spans[k + 1].start = spans[k].i
           /\ fnIn = TenEqual =>
                /\ Len(chunks) = 5
                /\ \A k \in 1..4 : /\ Len(chunks[k]) = 3
                                   /\ spans[k + 1].start = spans[k].i - 1
                                   /\ chunks[k + 1][1] = chunks[k][3]

C14_Witness ==
    /\ Grouped
    /\ fnIn = TenEqual
    /\ fnOut.spans = <<[start |-> 0, i |-> 3], [start |-> 2, i |-> 5], [start |-> 4, i |-> 7],
                       [start |-> 6, i |-> 9], [start |-> 8, i |-> 10]>>

\* C24: _group_paragraphs_into_chunks terminates for every paragraph list,
\* every max_chars and every overlap_paras >= 0: the outer loop runs at most
\* once per paragraph and ends at the last paragraph; every chunk is
\* non-empty; and a paragraph longer than max_chars is in the output and
\* every chunk that holds it holds nothing else.
C24_ForwardProgress ==
    Grouped =>
        LET n == Len(fnIn.paragraphs)
            spans == fnOut.spans
            chunks == fnOut.chunks
        IN /\ Len(spans) <= n
           /\ n > 0 => (spans # <<>> /\ spans[Len(spans)].i = n)
           /\ \A k \in 1..Len(chunks) : chunks[k] # <<>>
           /\ \A p \in 1..n :
                StrLen(fnIn.paragraphs[p]) > fnIn.max_chars =>
                    /\ \E k \in 1..Len(spans) : spans[k].start < p /\ p <= spans[k].i
                    /\ \A k \in 1..Len(spans) :
                            (spans[k].start < p /\ p <= spans[k].i) =>
                                (spans[k].i = p /\ spans[k].start = p - 1
                                 /\ chunks[k] = <<fnIn.paragraphs[p]>>)

C24_Witness ==
    /\ Grouped
    /\ Len(fnIn.paragraphs) = MaxParas
    /\ fnIn.overlap_paras = MaxOverlap
    /\ StrLen(fnIn.paragraphs[3]) > fnIn.max_chars
    /\ StrLen(fnIn.paragraphs[1]) + StrLen(fnIn.paragraphs[2]) <= fnIn.max_chars
    /\ StrLen(fnIn.paragraphs[1]) > 0
    /\ Len(fnOut.chunks) = 3
    /\ fnOut.chunks[2] = <<fnIn.paragraphs[3]>>

\* C30: every chunk after the first holds at least one paragraph position
\* that the chunk before it does not hold: it ends after the chunk before it.
C30_ChunkAddsCoverage ==
    Grouped =>
        \A k \in 1..(Len(fnOut.spans) - 1) :
            \E p \in (fnOut.spans[k + 1].start + 1)..fnOut.spans[k + 1].i :
                ~(fnOut.spans[k].start < p /\ p <= fnOut.spans[k].i)

\* A leading marker "[n]", "(n)" or "n." followed by whitespace: <<n>>, or
\* <<>> when the text does not begin with one.
LeadingMarker(s) ==
    LET t == SubSeq(s, Run(s, Whitespace) + 1, Len(s))
        Closed(open, close) ==
            /\ t # <<>> /\ t[1] = open
            /\ Run(Tail(t), Digits) > 0
            /\ Len(t) >= Run(Tail(t), Digits) + 3
            /\ t[Run(Tail(t), Digits) + 2] = close
            /\ t[Run(Tail(t), Digits) + 3] \in Whitespace
        nd == Run(t, Digits)
    IN IF Closed("[", "]") \/ Closed("(", ")")
       THEN <<IntOf(SubSeq(t, 2, Run(Tail(t), Digits) + 1))>>
       ELSE IF nd > 0 /\ Len(t) >= nd + 2 /\ t[nd + 1] = "." /\ t[nd + 2] \in Whitespace
       THEN <<IntOf(SubSeq(t, 1, nd))>>
       ELSE <<>>

\* C17: _guess_paragraph_number returns n for a paragraph that begins with
\* "[n]", "(n)" or "n." and None for one with no such marker, and in
\* _split_into_paragraphs a line that begins with such a marker starts a new
\* paragraph when one is being accumulated.
C17_MarkerForms ==
    /\ fnOp = "_guess_paragraph_number" => fnOut = LeadingMarker(fnIn.text)
    /\ fnOp = "_split_into_paragraphs" =>
        \A l1, l2 \in MarkerLines :
            (fnIn.text = l1 \o <<"\n">> \o l2 /\ NonBlank(l1) /\ LeadingMarker(l2) # <<>>)
                => Len(fnOut) = 2

\* --------------------------------------------------------- claims: citations
Cited == fnOp \in {"parse_hk_citations", "extract_all_citations"}

AllPatterns ==
    {HK_CITATION_PATTERN, HK_LAW_REPORTS_PATTERN, UK_CITATION_PATTERN, AU_CITATION_PATTERN}

\* C15: the list of citations extracted from a text has no two entries with
\* the same full_citation; each entry's year, upper-cased court and number
\* are those of the matched text; and a text with "[2024] HKCFA 15" twice
\* gives the one entry with year 2024, court HKCFA and number 15.
C15_Dedup ==
    Cited =>
        /\ \A j, k \in 1..Len(fnOut) :
                fnOut[j].full_citation = fnOut[k].full_citation => j = k
        /\ \A k \in 1..Len(fnOut) :
                LET e == fnOut[k]
                    full == e.full_citation
                IN /\ \E i \in 0..(Len(fnIn.text) - Len(full)) :
                        SubSeq(fnIn.text, i + 1, i + Len(full)) = full
                   /\ e.year = IntOf(SubSeq(full, 2, 5))
                   /\ \E p \in AllPatterns :
                        /\ e.court \in p.courts
                        /\ \E i \in 7..Len(full) : Upper(full[i]) = e.court
                        /\ MatchAt(p, full) = <<e>>
        /\ fnIn.text \in {HkExample \o <<" ">> \o HkExample,
                          HkExample \o <<" ", "see", " ">> \o HkExample} =>
                fnOut = <<ParsedCitation(HkExample, 2024, "HKCFA", 15, "HK", <<>>)>>

C15_Witness ==
    /\ fnOp = "extract_all_citations"
    /\ fnIn.text = HkExample \o <<" ", "see", " ">> \o HkExample
    /\ Len(fnOut) = 1
    /\ fnOut[1].full_citation = HkExample

\* The least offset at which full occurs in text.
FirstSeenAt(full, text) ==
    CHOOSE i \in 0..(Len(text) - Len(full)) :
        /\ SubSeq(text, i + 1, i + Len(full)) = full
        /\ \A h \in 0..(i - 1) : SubSeq(text, h + 1, h + Len(full)) # full

\* C25: extract_all_citations returns the citations in the order of their
\* first occurrence in the text, whichever pattern matched each of them.
C25_FirstSeenOrder ==
    fnOp = "extract_all_citations" =>
        \A j, k \in 1..Len(fnOut) :
            j < k => FirstSeenAt(fnOut[j].full_citation, fnIn.text)
                        <= FirstSeenAt(fnOut[k].full_citation, fnIn.text)

\* ------------------------------------------------------------- claims: items
\* C16: is_valid() is true exactly when the item's raw markup is non-empty
\* and its error is unset: false with no markup, with empty markup, and with
\* any error string.
C16_ValidIffMarkup ==
    fnOp = "is_valid" =>
        (fnOut <=> (/\ fnIn.item.raw_html # <<>>
                    /\ fnIn.item.raw_html # <<"">>
                    /\ fnIn.item.error = <<>>))

\* -------------------------------------------------- claims: failure reasons
\* C20: every URL the crawl loop of run() counts as failed has its error
\* reason in failed_urls: stats.failed equals the number of keys of
\* failed_urls, whatever the failure was.
C20_FailedRecorded ==
    ~otherLoop => state.stats.failed = Cardinality(DOMAIN state.failed_urls)

\* ------------------------------------------------- BaseScraper.fetch_page
\* What one page load ends in: a page, an HTTP error status, the built-in
\* TimeoutError or ConnectionError, or any other exception.
LoadOutcomes == {"ok", "http_error", "timeout", "connection_error", "other_error"}

\* "retry=retry_if_exception_type((TimeoutError, ConnectionError))"
Retried(outcome) == outcome \in {"timeout", "connection_error"}

\* The page load of caller c begins now.
BeginLoad(c) ==
    /\ scraper_last_request_time' = loopTime
    /\ fetchPc' = [fetchPc EXCEPT ![c] = "loading"]
    /\ loads' = loads + 1
    /\ prevLoad' = lastLoad
    /\ lastLoad' = <<loopTime>>

\* _rate_limit up to its first suspension: without a wait the time stamp is
\* written at once, otherwise the caller sleeps and writes it on waking.
RateLimit(c) ==
    LET wait_time == RequestDelay - (loopTime - scraper_last_request_time) IN
    IF wait_time > 0
    THEN /\ fetchPc' = [fetchPc EXCEPT ![c] = "sleeping"]
         /\ fetchWake' = [fetchWake EXCEPT ![c] = loopTime + wait_time]
         /\ UNCHANGED <<scraper_last_request_time, loads, prevLoad, lastLoad>>
    ELSE /\ BeginLoad(c)
         /\ UNCHANGED fetchWake

\* One attempt of fetch_page begins: "async with self._semaphore".
EnterSemaphore(c) ==
    IF fetchSem = 0 \/ fetchWaiters # <<>>
    THEN /\ fetchWaiters' = Append(fetchWaiters, c)
         /\ fetchPc' = [fetchPc EXCEPT ![c] = "wait_sem"]
         /\ UNCHANGED <<fetchSem, scraper_last_request_time, fetchWake, loads, prevLoad,
                        lastLoad>>
    ELSE /\ fetchSem' = fetchSem - 1
         /\ RateLimit(c)
         /\ UNCHANGED fetchWaiters

\* A task calls fetch_page.
FetchCall(c) ==
    /\ fetchPc[c] = "idle"
    /\ attempt' = [attempt EXCEPT ![c] = 1]
    /\ EnterSemaphore(c)
    /\ UNCHANGED <<loopTime, fetchResult, max_retries, retriedAfter>>
    /\ UNCHANGED <<crawlVars, limVars, adVars, pipeVars, cbVars>>

\* The first waiter is given the slot that was released.
FetchSemGranted(c) ==
    /\ fetchWaiters # <<>> /\ Head(fetchWaiters) = c
    /\ fetchSem > 0
    /\ fetchSem' = fetchSem - 1
    /\ fetchWaiters' = Tail(fetchWaiters)
    /\ RateLimit(c)
    /\ UNCHANGED <<loopTime, attempt, fetchResult, max_retries, retriedAfter>>
    /\ UNCHANGED <<crawlVars, limVars, adVars, pipeVars, cbVars>>

\* The sleep of _rate_limit ends.
FetchWake(c) ==
    /\ fetchPc[c] = "sleeping"
    /\ fetchWake[c] <= loopTime
    /\ BeginLoad(c)
    /\ fetchWake' = [fetchWake EXCEPT ![c] = 0]
    /\ UNCHANGED <<fetchSem, fetchWaiters, loopTime, attempt, fetchResult, max_retries,
                   retriedAfter>>
    /\ UNCHANGED <<crawlVars, limVars, adVars, pipeVars, cbVars>>

\* The page load ends and the semaphore is released; the retry decorator
\* decides whether fetch_page is attempted again.
LoadDone(c, outcome) ==
    /\ fetchPc[c] = "loading"
    /\ fetchSem' = fetchSem + 1
    /\ IF Retried(outcome) /\ attempt[c] < StopAfterAttempt
       THEN /\ fetchPc' = [fetchPc EXCEPT ![c] = "backoff"]
            /\ retriedAfter' = retriedAfter \cup {outcome}
            /\ UNCHANGED fetchResult
       ELSE /\ fetchPc' = [fetchPc EXCEPT ![c] = "returned"]
            /\ fetchResult' = [fetchResult EXCEPT ![c] =
                                 CASE outcome = "ok" -> "body"
                                   [] outcome = "http_error" -> "none"
                                   [] OTHER -> "raised"]
            /\ UNCHANGED retriedAfter
    /\ UNCHANGED <<fetchWaiters, loopTime, scraper_last_request_time, fetchWake, attempt,
                   max_retries, loads, prevLoad, lastLoad>>
    /\ UNCHANGED <<crawlVars, limVars, adVars, pipeVars, cbVars>>

\* The wait of the retry decorator ends and fetch_page is attempted again.
Retry(c) ==
    /\ fetchPc[c] = "backoff"
    /\ attempt' = [attempt EXCEPT ![c] = @ + 1]
    /\ EnterSemaphore(c)
    /\ UNCHANGED <<loopTime, fetchResult, max_retries, retriedAfter>>
    /\ UNCHANGED <<crawlVars, limVars, adVars, pipeVars, cbVars>>

\* Time passes, but not past the end of a sleep.
FetchTick ==
    /\ loopTime < MaxTime
    /\ \A c \in 1..NumCallers : fetchPc[c] = "sleeping" => loopTime < fetchWake[c]
    /\ loopTime' = loopTime + 1
    /\ UNCHANGED <<fetchPc, fetchSem, fetchWaiters, scraper_last_request_time, fetchWake,
                   attempt, fetchResult, max_retries, loads, prevLoad, lastLoad, retriedAfter>>
    /\ UNCHANGED <<crawlVars, limVars, adVars, pipeVars, cbVars>>

\* The scraper is configured with some max_retries.
FetchInit ==
    /\ CrawlIdle
    /\ LimiterIdle
    /\ mono = 0
    /\ AdaptiveFresh(DefaultConfig)
    /\ PipelineIdle
    /\ CircuitIdle
    /\ fetchPc = [c \in 1..NumCallers |-> "idle"]
    /\ fetchSem = ScraperMaxConcurrent
    /\ fetchWaiters = <<>>
    /\ loopTime \in {0, RequestDelay + 1}
    /\ scraper_last_request_time = 0
    /\ fetchWake = [c \in 1..NumCallers |-> 0]
    /\ attempt = [c \in 1..NumCallers |-> 0]
    /\ fetchResult = [c \in 1..NumCallers |-> ""]
    /\ max_retries \in {1, StopAfterAttempt, StopAfterAttempt + 2}
    /\ loads = 0
    /\ prevLoad = <<>>
    /\ lastLoad = <<>>
    /\ retriedAfter = {}

FetchNext ==
    \/ \E c \in 1..NumCallers : FetchCall(c)
    \/ \E c \in 1..NumCallers : FetchSemGranted(c)
    \/ \E c \in 1..NumCallers : FetchWake(c)
    \/ \E c \in 1..NumCallers, outcome \in LoadOutcomes : LoadDone(c, outcome)
    \/ \E c \in 1..NumCallers : Retry(c)
    \/ FetchTick

FetchSpec == FetchInit /\ [][FetchNext]_vars

\* ------------------------------------------------------ claims: fetch_page
\* C18: with up to max_concurrent callers inside fetch_page, any two page
\* loads begin at least request_delay apart.
C18_GlobalDelay ==
    (prevLoad # <<>> /\ lastLoad # <<>>) => lastLoad[1] - prevLoad[1] >= RequestDelay

\* C19: only a timeout or a connection error is followed by another attempt
\* (a response with status >= 400 and a successful response are returned
\* after the attempt that met them), and no call of fetch_page makes more
\* than the configured max_retries attempts.
C19_FetchClassification ==
    /\ retriedAfter \subseteq {"timeout", "connection_error"}
    /\ \A c \in 1..NumCallers : attempt[c] <= max_retries

\* ------------------------------------------------------------ CircuitBreaker
\* The state property: an open circuit whose recovery_timeout has elapsed
\* turns half-open when it is read.
CircuitStateRead ==
    IF cbState = "open" /\ wallTime - last_failure_time >= RecoveryTimeout
    THEN "half_open" ELSE cbState

\* is_call_permitted, given what the state property returned.
IsCallPermitted(st) == st = "closed" \/ st = "half_open"

\* call(): is_call_permitted() is read; the call is rejected with
\* CircuitOpenError, or func is invoked and awaited.
CircuitCall(c) ==
    /\ callPc[c] = "idle"
    /\ calls < MaxCalls
    /\ calls' = calls + 1
    /\ cbState' = CircuitStateRead
    /\ IF IsCallPermitted(CircuitStateRead)
       THEN /\ callPc' = [callPc EXCEPT ![c] = "in_flight"]
            /\ admitted' = [admitted EXCEPT ![c] = CircuitStateRead]
            /\ lastCall' = "permitted"
       ELSE /\ lastCall' = "rejected"
            /\ UNCHANGED <<callPc, admitted>>
    /\ UNCHANGED <<failure_count, last_failure_time, wallTime>>
    /\ UNCHANGED <<crawlVars, limVars, adVars, pipeVars, fetchVars>>

\* func returns: record_success().
CircuitSuccess(c) ==
    /\ callPc[c] = "in_flight"
    /\ cbState' = "closed"
    /\ failure_count' = 0
    /\ callPc' = [callPc EXCEPT ![c] = "idle"]
    /\ admitted' = [admitted EXCEPT ![c] = ""]
    /\ UNCHANGED <<last_failure_time, wallTime, calls, lastCall>>
    /\ UNCHANGED <<crawlVars, limVars, adVars, pipeVars, fetchVars>>

\* func raises: record_failure(), and the exception is raised again.
CircuitFailure(c) ==
    /\ callPc[c] = "in_flight"
    /\ failure_count' = failure_count + 1
    /\ last_failure_time' = wallTime
    /\ cbState' = IF failure_count + 1 >= FailureThreshold THEN "open" ELSE cbState
    /\ callPc' = [callPc EXCEPT ![c] = "idle"]
    /\ admitted' = [admitted EXCEPT ![c] = ""]
    /\ UNCHANGED <<wallTime, calls, lastCall>>
    /\ UNCHANGED <<crawlVars, limVars, adVars, pipeVars, fetchVars>>

\* Time passes, half a recovery_timeout at a time, until recovery_timeout has
\* passed since the last failure; after that more time changes nothing.
CircuitTick ==
    /\ wallTime - last_failure_time < RecoveryTimeout
    /\ wallTime' = wallTime + RecoveryTimeout \div 2
    /\ UNCHANGED <<cbState, failure_count, last_failure_time, callPc, admitted, calls, lastCall>>
    /\ UNCHANGED <<crawlVars, limVars, adVars, pipeVars, fetchVars>>

CircuitInit ==
    /\ CrawlIdle
    /\ LimiterIdle
    /\ mono = 0
    /\ AdaptiveFresh(DefaultConfig)
    /\ PipelineIdle
    /\ FetchIdle
    /\ CircuitIdle

CircuitNext ==
    \/ \E c \in 1..NumCallers : CircuitCall(c)
    \/ \E c \in 1..NumCallers : CircuitSuccess(c)
    \/ \E c \in 1..NumCallers : CircuitFailure(c)
    \/ CircuitTick

CircuitSpec == CircuitInit /\ [][CircuitNext]_vars

\* ---------------------------------------------------- claims: circuit breaker
TestCalls == {c \in 1..NumCallers : callPc[c] = "in_flight" /\ admitted[c] = "half_open"}

\* C27: while the circuit is open and recovery_timeout has not elapsed, no
\* call reaches func; in the half-open state only one test call is in flight
\* at a time; a test call that succeeds closes the circuit and resets the
\* failure count, and one that fails opens it again.
C27_RecoveryTest ==
    /\ [][(cbState = "open" /\ wallTime - last_failure_time < RecoveryTimeout) =>
            \A c \in 1..NumCallers : callPc[c] = "idle" => callPc'[c] = "idle"]_vars
    /\ [](Cardinality(TestCalls) <= 1)
    /\ [][\A c \in TestCalls :
            callPc'[c] = "idle" =>
                \/ cbState' = "closed" /\ failure_count' = 0
                \/ cbState' = "open" /\ failure_count' > failure_count]_vars

====
